---- MODULE Spec2Model ----
(***************************************************************************)
(* Model of the analytics pages of Simon-Edit-Operation:                   *)
(*   - the broker performance page (filters, brokerPerformance, the weekly *)
(*     threshold chart),                                                   *)
(*   - the sessionStorage-backed lead sources page (fixed-divisor rolling  *)
(*     average, distinct deal_id buckets, lead-source summary),            *)
(*   - the sample-data lead sources page (full-window rolling average).    *)
(* React state is the VARIABLES; every useMemo value is an operator over   *)
(* the state, recomputed from scratch as the code does.                    *)
(*                                                                         *)
(* JavaScript values are tagged records: Null (null or undefined),         *)
(* Str(s), Num(n).  Numbers that the code divides are kept as exact        *)
(* fractions [num, den].  Instants are whole hours since 2023-11-20T00Z,   *)
(* the first day of Calendar; the runtime's time zone is a fixed offset    *)
(* in hours (no daylight saving).                                          *)
(***************************************************************************)
EXTENDS Integers, Sequences, FiniteSets, TLC

VARIABLES
    deals,              \* useState<Deal[]>
    isLoading,          \* useState(false)
    error,              \* useState<string | null>
    storage,            \* the browser storage item holding the uploaded deals
    mounted,            \* the mount effect has run
    selectedMode,       \* 'settled' | 'conversion'
    selectedBroker,     \* 'all' or a broker name
    selectedYear,       \* 'all' or a year
    threshold,          \* weekly deal threshold
    minDealsThreshold,  \* minimum deals of a listed broker
    tz,                 \* the runtime's offset from UTC in hours
    uploads             \* the handleFileUpload calls waiting for their file's content

vars == << deals, isLoading, error, storage, mounted,
           selectedMode, selectedBroker, selectedYear,
           threshold, minDealsThreshold, tz, uploads >>

----------------------------------------------------------------------------
(* Bounds of the model *)

\* longest deal array held in browser storage (broker performance page)
MaxDeals == 3
\* longest deal array of the lead sources specifications
MaxLeadDeals == 3
\* number of deals the sample generator makes (2000 in the code)
MaxSampleDeals == 2
\* longest deal array given to the sample page's chart computation
MaxRows == 3
\* most handleFileUpload calls waiting for their file at one time
MaxInFlight == 2

----------------------------------------------------------------------------
(* JavaScript values *)

Null == [t |-> "null"]
Str(s) == [t |-> "str", s |-> s]
Num(n) == [t |-> "num", n |-> n]

\* ToBoolean: null/undefined, "" and 0 are falsy, objects (a Date) are truthy
Truthy(v) ==
    CASE v.t = "null" -> FALSE
      [] v.t = "str"  -> v.s # ""
      [] v.t = "num"  -> v.n # 0
      [] OTHER        -> TRUE

\* String.prototype.trim on the strings of the model
Trim(s) == IF s \in {"", " ", "  "} THEN "" ELSE s

\* exact fractions for the results of "/"
Frac(n, d) == [num |-> n, den |-> d]
FracZero == Frac(0, 1)
\* an integral number
Whole(n) == Frac(n, 1)
FracLe(a, b) == a.num * b.den <= b.num * a.den
FracLt(a, b) == a.num * b.den < b.num * a.den
FracEq(a, b) == a.num * b.den = b.num * a.den
FracAdd(a, b) == Frac(a.num * b.den + b.num * a.den, a.den * b.den)

----------------------------------------------------------------------------
(* Dates *)

\* the calendar days the model can name; Calendar[1] is a Monday
Calendar ==
    << "2023-11-20", "2023-11-21", "2023-11-22", "2023-11-23", "2023-11-24", "2023-11-25", "2023-11-26",
       "2023-11-27", "2023-11-28", "2023-11-29", "2023-11-30", "2023-12-01", "2023-12-02", "2023-12-03",
       "2023-12-04", "2023-12-05", "2023-12-06", "2023-12-07", "2023-12-08", "2023-12-09", "2023-12-10",
       "2023-12-11", "2023-12-12", "2023-12-13", "2023-12-14", "2023-12-15", "2023-12-16", "2023-12-17",
       "2023-12-18", "2023-12-19", "2023-12-20", "2023-12-21", "2023-12-22", "2023-12-23", "2023-12-24",
       "2023-12-25", "2023-12-26", "2023-12-27", "2023-12-28", "2023-12-29", "2023-12-30", "2023-12-31",
       "2024-01-01", "2024-01-02", "2024-01-03", "2024-01-04", "2024-01-05", "2024-01-06", "2024-01-07",
       "2024-01-08", "2024-01-09", "2024-01-10", "2024-01-11", "2024-01-12", "2024-01-13", "2024-01-14",
       "2024-01-15", "2024-01-16", "2024-01-17", "2024-01-18", "2024-01-19", "2024-01-20", "2024-01-21",
       "2024-01-22", "2024-01-23", "2024-01-24", "2024-01-25", "2024-01-26", "2024-01-27", "2024-01-28",
       "2024-01-29", "2024-01-30", "2024-01-31", "2024-02-01", "2024-02-02", "2024-02-03", "2024-02-04",
       "2024-02-05", "2024-02-06", "2024-02-07", "2024-02-08", "2024-02-09", "2024-02-10", "2024-02-11",
       "2024-02-12", "2024-02-13", "2024-02-14", "2024-02-15", "2024-02-16", "2024-02-17", "2024-02-18",
       "2024-02-19", "2024-02-20", "2024-02-21", "2024-02-22", "2024-02-23", "2024-02-24", "2024-02-25",
       "2024-02-26", "2024-02-27", "2024-02-28", "2024-02-29", "2024-03-01", "2024-03-02", "2024-03-03",
       "2024-03-04", "2024-03-05", "2024-03-06", "2024-03-07", "2024-03-08", "2024-03-09", "2024-03-10",
       "2024-03-11", "2024-03-12", "2024-03-13", "2024-03-14", "2024-03-15", "2024-03-16", "2024-03-17" >>

CalendarDays == { Calendar[i] : i \in 1..Len(Calendar) }

\* the year of a day number: 2024-01-01 is day 42
YearOfDay(n) == IF n < 42 THEN "2023" ELSE "2024"

\* day number (0 = 2023-11-20) of a YYYY-MM-DD string
DayIndex == [s \in CalendarDays |-> CHOOSE i \in 1..Len(Calendar) : Calendar[i] = s]
DayNumber(s) == DayIndex[s] - 1

\* YYYY-MM-DD of a day number
DayString(n) == IF n + 1 \in 1..Len(Calendar) THEN Calendar[n + 1] ELSE "out-of-calendar"

\* ISO timestamps with a time of day, as XLSX cellDates + toISOString make them
DateTimes ==
    { [s |-> "2024-01-07T11:00:00.000Z", day |-> "2024-01-07", hour |-> 11],
      [s |-> "2024-01-07T13:00:00.000Z", day |-> "2024-01-07", hour |-> 13],
      [s |-> "2024-01-07T20:00:00.000Z", day |-> "2024-01-07", hour |-> 20] }

HoursPerDay == 24

\* new Date(s): the instant, or Invalid Date (NaN)
InvalidDate == [valid |-> FALSE, t |-> 0]
Instant(h) == [valid |-> TRUE, t |-> h]
ParseDate(s) ==
    IF s \in CalendarDays
    THEN Instant(DayNumber(s) * HoursPerDay)
    ELSE IF \E r \in DateTimes : r.s = s
         THEN LET r == CHOOSE r \in DateTimes : r.s = s
              IN  Instant(DayNumber(r.day) * HoursPerDay + r.hour)
         ELSE InvalidDate

\* the runtime's local-time offsets from UTC, in hours
TimeZones == {-5, 0, 10}

\* a zone whose offset changes: Africa/Casablanca, at UTC+1 until 2024-03-10T02:00Z
\* and at UTC+0 from then on (to the end of the calendar)
Casablanca == 1
ClockChange == DayNumber("2024-03-10") * HoursPerDay + 2
\* the offset of a zone at an instant; a zone is named by its standard offset
OffsetAt(zone, h) == IF zone = Casablanca /\ h >= ClockChange THEN 0 ELSE zone

\* local calendar day number of an instant
LocalDay(h, zone) == (h + OffsetAt(zone, h)) \div HoursPerDay
\* local hour of day of an instant
LocalHour(h, zone) == (h + OffsetAt(zone, h)) % HoursPerDay
\* the instant of a local day and hour
FromLocal(day, hour, zone) ==
    LET local == day * HoursPerDay + hour
    IN  local - OffsetAt(zone, local - zone)
\* Date.prototype.getDay: 0 = Sunday .. 6 = Saturday (day 0 is a Monday)
GetDay(h, zone) == (LocalDay(h, zone) + 1) % 7
\* Date.prototype.getFullYear().toString()
GetFullYear(d, zone) == IF d.valid THEN YearOfDay(LocalDay(d.t, zone)) ELSE "NaN"
\* Date.prototype.toISOString().split('T')[0]: the UTC calendar day
IsoDate(h) == DayString(h \div HoursPerDay)

----------------------------------------------------------------------------
(* Deal records: functions from field name to value *)

\* a faulty variant: the converted test forgets the settled stage
ConvertedFieldsWithoutSettled ==
    << "1. Application", "2. Assessment", "3. Approval", "4. Loan Document",
       "5. Settlement Queue", "2025 Settlement", "2024 Settlement" >>

ConvertedFields ==
    << "1. Application", "2. Assessment", "3. Approval", "4. Loan Document",
       "5. Settlement Queue", "6. Settled", "2025 Settlement", "2024 Settlement" >>

\* a deal with every optional field missing
BaseDeal ==
    [f \in {"1. Application", "2. Assessment", "3. Approval", "4. Loan Document",
             "5. Settlement Queue", "6. Settled", "2025 Settlement", "2024 Settlement",
             "deal_value", "latest_date", "created_date"} |-> Null]
    @@ [deal_id |-> "", deal_name |-> "", broker_name |-> "", status |-> ""]
    @@ ("From Rednote?" :> "No" @@ "From LifeX?" :> "No")

Amy == "Miao (Amy)"
Jo == "QianShuo(Jo)"

\* the fixed broker list of the filter
availableBrokers == {Amy, Jo}

\* property names every object inherits: acc[name] is truthy on a fresh {}
ObjectPrototypeNames == {"constructor", "toString", "__proto__"}

\* (v && v.trim() !== ""): "true", "false", or "throw" when v is truthy and has no trim
FieldCheck(v) ==
    IF ~Truthy(v) THEN "false"
    ELSE IF v.t = "str" THEN (IF Trim(v.s) # "" THEN "true" ELSE "false")
    ELSE "throw"

\* a faulty variant: the settled test without trim()
SettledCheckUntrimmed(deal) == IF Truthy(deal["6. Settled"]) THEN "true" ELSE "false"

\* the settled test of a deal
SettledCheck(deal) == FieldCheck(deal["6. Settled"])

\* the || chain of isConverted from field i on: the first outcome that is not "false"
RECURSIVE ConvertedFrom(_, _)
ConvertedFrom(deal, i) ==
    IF i > Len(ConvertedFields) THEN "false"
    ELSE LET c == FieldCheck(deal[ConvertedFields[i]])
         IN  IF c = "false" THEN ConvertedFrom(deal, i + 1) ELSE c

ConvertedCheck(deal) == ConvertedFrom(deal, 1)

\* deal.deal_value || 0
ValueOrZero(deal) == IF Truthy(deal["deal_value"]) THEN deal["deal_value"].n ELSE 0

\* all sequences over pool of length 0..n
SeqsUpTo(pool, n) == UNION { [1..k -> pool] : k \in 0..n }

----------------------------------------------------------------------------
(* Broker performance page: derived values *)

NoError == "null"

\* availableYears: the local years of the deals' latest_date
availableYears ==
    { GetFullYear(ParseDate(deals[i]["latest_date"].s), tz) :
        i \in { j \in 1..Len(deals) : Truthy(deals[j]["latest_date"]) } } \ {"NaN"}

YearMatches(deal) ==
    /\ Truthy(deal["latest_date"])
    /\ GetFullYear(ParseDate(deal["latest_date"].s), tz) = selectedYear

BrokerMatches(deal) == deal["broker_name"] = selectedBroker

\* the filteredDeals memo as a function of the deals, the filters and the runtime's zone
FilteredDealsOf(ds, broker, year, zone) ==
    LET byBroker == IF broker # "all"
                    THEN SelectSeq(ds, LAMBDA deal : deal["broker_name"] = broker)
                    ELSE ds
    IN  IF year # "all"
        THEN SelectSeq(byBroker,
                LAMBDA deal : /\ Truthy(deal["latest_date"])
                              /\ GetFullYear(ParseDate(deal["latest_date"].s), zone) = year)
        ELSE byBroker

filteredDeals ==
    LET byBroker == IF selectedBroker # "all" THEN SelectSeq(deals, BrokerMatches) ELSE deals
    IN  IF selectedYear # "all" THEN SelectSeq(byBroker, YearMatches) ELSE byBroker

\* a faulty variant: the accumulator entry of a key is never found
KeyIndexNever(acc, key) == 0

\* index of the accumulator entry of a key, 0 when there is none
KeyIndex(acc, key) ==
    IF \E i \in 1..Len(acc) : acc[i].key = key
    THEN CHOOSE i \in 1..Len(acc) : acc[i].key = key
    ELSE 0

\* one step of the reduce: acc is the list of entries in insertion order,
\* or the thrown state
BrokerStatsStep(acc, deal) ==
    IF acc.threw THEN acc
    ELSE IF deal["broker_name"] \in ObjectPrototypeNames THEN [acc EXCEPT !.threw = TRUE]
    ELSE IF SettledCheck(deal) = "throw" \/ ConvertedCheck(deal) = "throw"
         THEN [acc EXCEPT !.threw = TRUE]
    ELSE
    LET name == deal["broker_name"]
        k == KeyIndex(acc.list, name)
        fresh == [key |-> name, deals |-> << >>, settled |-> 0, settledValue |-> 0, converted |-> 0]
        lst == IF k = 0 THEN Append(acc.list, fresh) ELSE acc.list
        j == IF k = 0 THEN Len(lst) ELSE k
        old == lst[j]
        isSettled == SettledCheck(deal) = "true"
        new == [old EXCEPT
                  !.deals = Append(old.deals, deal),
                  !.settled = IF isSettled THEN old.settled + 1 ELSE old.settled,
                  !.settledValue = IF isSettled THEN old.settledValue + ValueOrZero(deal)
                                   ELSE old.settledValue,
                  !.converted = IF ConvertedCheck(deal) = "true" THEN old.converted + 1
                                ELSE old.converted]
    IN  [acc EXCEPT !.list = [lst EXCEPT ![j] = new]]

RECURSIVE BrokerStats(_, _)
BrokerStats(ds, acc) ==
    IF ds = << >> THEN acc ELSE BrokerStats(Tail(ds), BrokerStatsStep(acc, Head(ds)))

\* a faulty variant: the rate as a fraction of 1, not a percentage
RateOfOne(count, total) == IF total > 0 THEN Frac(count, total) ELSE FracZero

\* count / total * 100, 0 when total is 0
Rate(count, total) == IF total > 0 THEN Frac(count * 100, total) ELSE FracZero

\* stats.settled > 0 ? stats.settledValue / stats.settled : 0
AvgDealValue(stats) ==
    IF stats.settled > 0 THEN Frac(stats.settledValue, stats.settled) ELSE FracZero

PerformanceEntry(stats) ==
    LET totalDeals == Len(stats.deals)
    IN  [brokerName |-> stats.key,
         totalDeals |-> totalDeals,
         settledDeals |-> stats.settled,
         settledRate |-> Rate(stats.settled, totalDeals),
         settledValue |-> stats.settledValue,
         avgDealValue |-> AvgDealValue(stats),
         conversionRate |-> Rate(stats.converted, totalDeals),
         convertedDeals |-> stats.converted]

\* a faulty variant: the comparator with a and b exchanged (ascending order)
SortsAscending(a, b, mode) ==
    IF mode = "settled" THEN a.settledValue < b.settledValue
    ELSE FracLt(a.conversionRate, b.conversionRate)

\* the comparator's "a sorts before b": b.key - a.key < 0
SortsBefore(a, b, mode) ==
    IF mode = "settled" THEN b.settledValue < a.settledValue
    ELSE FracLt(b.conversionRate, a.conversionRate)

\* stable insertion of x behind every element it does not sort before
RECURSIVE InsertSorted(_, _, _)
InsertSorted(sorted, x, mode) ==
    IF sorted = << >> THEN << x >>
    ELSE IF SortsBefore(x, Head(sorted), mode) THEN << x >> \o sorted
    ELSE << Head(sorted) >> \o InsertSorted(Tail(sorted), x, mode)

RECURSIVE SortEntries(_, _, _)
SortEntries(list, sorted, mode) ==
    IF list = << >> THEN sorted
    ELSE SortEntries(Tail(list), InsertSorted(sorted, Head(list), mode), mode)

\* a faulty variant: in conversion mode only brokers with a converted deal are listed
BrokerPerformanceOfMode(ds, mode) ==
    IF Len(ds) = 0 THEN [threw |-> FALSE, list |-> << >>]
    ELSE LET stats == BrokerStats(ds, [threw |-> FALSE, list |-> << >>])
             entries == [i \in 1..Len(stats.list) |-> PerformanceEntry(stats.list[i])]
             listed == IF mode = "conversion"
                       THEN SelectSeq(entries, LAMBDA e : e.convertedDeals > 0)
                       ELSE entries
         IN  IF stats.threw THEN [threw |-> TRUE, list |-> << >>]
             ELSE [threw |-> FALSE, list |-> SortEntries(listed, << >>, mode)]

\* the brokerPerformance memo over a deal array: [threw, list]
BrokerPerformanceOf(ds, mode) ==
    IF Len(ds) = 0 THEN [threw |-> FALSE, list |-> << >>]
    ELSE LET stats == BrokerStats(ds, [threw |-> FALSE, list |-> << >>])
         IN  IF stats.threw THEN [threw |-> TRUE, list |-> << >>]
             ELSE [threw |-> FALSE,
                   list |-> SortEntries([i \in 1..Len(stats.list) |-> PerformanceEntry(stats.list[i])],
                                          << >>, mode)]

brokerPerformance == BrokerPerformanceOf(filteredDeals, selectedMode)


\* a faulty variant: only brokers with more deals than the minimum are kept
filterAboveMinimumDeals(list, minDeals) ==
    SelectSeq(list, LAMBDA broker : broker.totalDeals > minDeals)

\* brokerPerformance.filter(broker => broker.totalDeals >= minDealsThreshold)
filterByMinimumDeals(list, minDeals) ==
    SelectSeq(list, LAMBDA broker : broker.totalDeals >= minDeals)

filteredBrokers == filterByMinimumDeals(brokerPerformance.list, minDealsThreshold)

----------------------------------------------------------------------------
(* Broker performance page: the weekly threshold chart *)

\* "Get week start (Monday)": getDay, setDate(getDate() - day + (day === 0 ? -6 : 1)),
\* setHours(0, 0, 0, 0), all in local time
WeekStart(h, zone) ==
    LET day == GetDay(h, zone)
        diff == LocalDay(h, zone) - day + (IF day = 0 THEN -6 ELSE 1)
    IN  FromLocal(diff, 0, zone)

\* weekStart.toISOString().split('T')[0]
WeekKey(h, zone) == IsoDate(WeekStart(h, zone))

\* one step of the weeklyGroups reduce
WeeklyGroupsStep(acc, deal, zone) ==
    IF acc.threw THEN acc
    ELSE IF ~Truthy(deal["latest_date"]) THEN acc
    ELSE LET dealDate == ParseDate(deal["latest_date"].s) IN
    IF ~dealDate.valid THEN acc
    ELSE IF SettledCheck(deal) = "throw" \/ ConvertedCheck(deal) = "throw"
         THEN [acc EXCEPT !.threw = TRUE]
    ELSE
    LET weekKey == WeekKey(dealDate.t, zone)
        k == KeyIndex(acc.list, weekKey)
        fresh == [key |-> weekKey, weekStart |-> WeekStart(dealDate.t, zone), deals |-> << >>,
                  totalDeals |-> 0, settledDeals |-> 0, convertedDeals |-> 0]
        lst == IF k = 0 THEN Append(acc.list, fresh) ELSE acc.list
        j == IF k = 0 THEN Len(lst) ELSE k
        old == lst[j]
        new == [old EXCEPT
                  !.deals = Append(old.deals, deal),
                  !.totalDeals = old.totalDeals + 1,
                  !.settledDeals = IF SettledCheck(deal) = "true" THEN old.settledDeals + 1
                                   ELSE old.settledDeals,
                  !.convertedDeals = IF ConvertedCheck(deal) = "true" THEN old.convertedDeals + 1
                                     ELSE old.convertedDeals]
    IN  [acc EXCEPT !.list = [lst EXCEPT ![j] = new]]

RECURSIVE WeeklyGroups(_, _, _)
WeeklyGroups(ds, acc, zone) ==
    IF ds = << >> THEN acc
    ELSE WeeklyGroups(Tail(ds), WeeklyGroupsStep(acc, Head(ds), zone), zone)

\* a faulty variant: a week is "above" only when it exceeds the threshold
WeeklyDatumStrict(data, mode, limit) ==
    LET settledRate == Rate(data.settledDeals, data.totalDeals)
        conversionRate == Rate(data.convertedDeals, data.totalDeals)
    IN  [totalDeals |-> data.totalDeals,
         rate |-> IF mode = "settled" THEN settledRate ELSE conversionRate,
         settledRate |-> settledRate,
         conversionRate |-> conversionRate,
         settledDeals |-> data.settledDeals,
         convertedDeals |-> data.convertedDeals,
         isAboveThreshold |-> FracLt(limit, Whole(data.totalDeals))]

\* one entry of weeklyData
WeeklyDatum(data, mode, limit) ==
    LET settledRate == Rate(data.settledDeals, data.totalDeals)
        conversionRate == Rate(data.convertedDeals, data.totalDeals)
    IN  [totalDeals |-> data.totalDeals,
         rate |-> IF mode = "settled" THEN settledRate ELSE conversionRate,
         settledRate |-> settledRate,
         conversionRate |-> conversionRate,
         settledDeals |-> data.settledDeals,
         convertedDeals |-> data.convertedDeals,
         isAboveThreshold |-> FracLe(limit, Whole(data.totalDeals))]

\* Object.entries(weeklyGroups).map(...)
WeeklyData(groups, mode, limit) ==
    [i \in 1..Len(groups) |-> WeeklyDatum(groups[i], mode, limit)]

\* weeks.reduce((sum, w) => sum + w[field], 0)
RECURSIVE SumField(_, _)
SumField(weeks, field) ==
    IF weeks = << >> THEN 0 ELSE weeks[1][field] + SumField(Tail(weeks), field)

RECURSIVE SumRate(_, _)
SumRate(weeks, field) ==
    IF weeks = << >> THEN FracZero ELSE FracAdd(weeks[1][field], SumRate(Tail(weeks), field))

\* the weeks' rates weighted by their number of deals, summed
RECURSIVE WeightedRate(_, _)
WeightedRate(weeks, field) ==
    IF weeks = << >> THEN FracZero
    ELSE FracAdd(Frac(weeks[1][field].num * weeks[1].totalDeals, weeks[1][field].den),
                 WeightedRate(Tail(weeks), field))

\* a faulty variant: the pooled rate of the category (summed counts over summed deals)
MeanRatePooled(weeks, field) ==
    LET sum == WeightedRate(weeks, field)
    IN  Frac(sum.num, sum.den * SumField(weeks, "totalDeals"))

\* sum / weeks.length
MeanRate(weeks, field) ==
    LET sum == SumRate(weeks, field) IN Frac(sum.num, sum.den * Len(weeks))

\* parseFloat(x.toFixed(1)) of a non-negative x
ToFixed1(x) == Frac((20 * x.num + x.den) \div (2 * x.den), 10)

Category(label, weeks, limit) ==
    [category |-> label,
     limit |-> limit,
     rate |-> ToFixed1(MeanRate(weeks, "rate")),
     weekCount |-> Len(weeks),
     totalDeals |-> SumField(weeks, "totalDeals"),
     avgSettledRate |-> MeanRate(weeks, "settledRate"),
     avgConversionRate |-> MeanRate(weeks, "conversionRate")]

\* a faulty variant: a category without weeks is pushed as a zero bar
EmitCategoryAlways(label, weeks, limit) ==
    IF Len(weeks) > 0 THEN << Category(label, weeks, limit) >>
    ELSE << [category |-> label, limit |-> limit, rate |-> Frac(0, 10), weekCount |-> 0,
             totalDeals |-> 0, avgSettledRate |-> FracZero, avgConversionRate |-> FracZero] >>

\* if (weeks.length > 0) chartData.push({...})
EmitCategory(label, weeks, limit) ==
    IF Len(weeks) > 0 THEN << Category(label, weeks, limit) >> ELSE << >>

\* the weekly groups of the selected broker: [threw, list]
WeeklyGroupsOf(ds, broker, zone) ==
    WeeklyGroups(SelectSeq(ds, LAMBDA deal : deal["broker_name"] = broker),
                 [threw |-> FALSE, list |-> << >>], zone)

\* the chartData memo: [threw, list]
ChartDataOf(ds, broker, mode, limit, zone) ==
    IF broker = "all" \/ Len(ds) = 0 THEN [threw |-> FALSE, list |-> << >>]
    ELSE LET brokerDeals == SelectSeq(ds, LAMBDA deal : deal["broker_name"] = broker) IN
    IF Len(brokerDeals) = 0 THEN [threw |-> FALSE, list |-> << >>]
    ELSE LET groups == WeeklyGroupsOf(ds, broker, zone) IN
    IF groups.threw THEN [threw |-> TRUE, list |-> << >>]
    ELSE
    LET weeklyData == WeeklyData(groups.list, mode, limit)
        aboveThresholdWeeks == SelectSeq(weeklyData, LAMBDA w : w.isAboveThreshold)
        belowThresholdWeeks == SelectSeq(weeklyData, LAMBDA w : ~w.isAboveThreshold)
    IN  [threw |-> FALSE,
         list |-> EmitCategory("<", belowThresholdWeeks, limit)
               \o EmitCategory(">=", aboveThresholdWeeks, limit)]

weeklyGroups == WeeklyGroupsOf(filteredDeals, selectedBroker, tz)

chartData == ChartDataOf(filteredDeals, selectedBroker, selectedMode, threshold, tz)


----------------------------------------------------------------------------
(* Inputs of the broker performance page *)

Deal(id, broker, value, latest) ==
    [BaseDeal EXCEPT !["deal_id"] = id, !["broker_name"] = broker,
                     !["deal_value"] = value, !["latest_date"] = latest]

\* the deals the stored array can hold: two brokers, settled / converted / neither,
\* values present and missing
DealPool ==
    { [Deal("d1", Amy, Num(100), Str("2024-01-01")) EXCEPT !["6. Settled"] = Str("2024-01-15")],
      [Deal("d2", Amy, Num(0), Str("2024-01-07")) EXCEPT !["1. Application"] = Str("x")],
      [Deal("d3", Amy, Num(250), Str("2024-01-08")) EXCEPT !["6. Settled"] = Str(" ")],
      [Deal("d5", Jo, Null, Null) EXCEPT !["6. Settled"] = Str("yes")],
      [Deal("d6", Jo, Num(50), Str("2023-12-31")) EXCEPT !["2024 Settlement"] = Str("y")] }

\* the deals of the weekly chart specification: one broker's deals on a Monday, the
\* Sunday of that week and the next Monday, an unparseable date and a missing date
WeekDealPool ==
    { [Deal("d1", Amy, Num(100), Str("2024-01-01")) EXCEPT !["6. Settled"] = Str("2024-01-15")],
      [Deal("d2", Amy, Num(0), Str("2024-01-07")) EXCEPT !["1. Application"] = Str("x")],
      [Deal("d3", Amy, Num(250), Str("2024-01-08")) EXCEPT !["6. Settled"] = Str(" ")],
      [Deal("d4", Amy, Num(50), Str("not a date")) EXCEPT !["2024 Settlement"] = Str("y")],
      [Deal("d5", Jo, Null, Null) EXCEPT !["6. Settled"] = Str("yes")] }

NoItem == [kind |-> "none", val |-> << >>]
CorruptItem == [kind |-> "corrupt", val |-> << >>]
JsonItem(ds) == [kind |-> "json", val |-> ds]

\* what the storage item can hold when the page is opened
StoredItems == {NoItem, CorruptItem} \cup { JsonItem(ds) : ds \in SeqsUpTo(DealPool, MaxDeals) }
WeekStoredItems ==
    {NoItem, CorruptItem} \cup { JsonItem(ds) : ds \in SeqsUpTo(WeekDealPool, MaxDeals) }

\* the slider positions the model moves the threshold to (0..60 in the page)
SliderValues == {0, 2, 20}

----------------------------------------------------------------------------
(* Broker performance page: state machine *)

InitPage ==
    /\ deals = << >>
    /\ isLoading = FALSE
    /\ error = NoError
    /\ mounted = FALSE
    /\ selectedMode = "settled"
    /\ selectedBroker = "all"
    /\ selectedYear = "all"
    /\ threshold = Whole(20)
    /\ minDealsThreshold = 5
    /\ tz \in TimeZones
    /\ uploads = {}

Init ==
    /\ InitPage
    /\ storage \in StoredItems

\* the mount effect: load the deals saved in sessionStorage
MountLoad ==
    /\ ~mounted
    /\ mounted' = TRUE
    /\ deals' = IF storage.kind = "json" THEN storage.val ELSE deals
    /\ UNCHANGED << isLoading, error, storage, selectedMode, selectedBroker, selectedYear,
                    threshold, minDealsThreshold, tz, uploads >>

\* the filter controls are rendered once there are deals
SetSelectedMode(m) ==
    /\ Len(deals) > 0
    /\ selectedMode' = m
    /\ UNCHANGED << deals, isLoading, error, storage, mounted, selectedBroker, selectedYear,
                    threshold, minDealsThreshold, tz, uploads >>

SetSelectedBroker(b) ==
    /\ Len(deals) > 0
    /\ selectedBroker' = b
    /\ UNCHANGED << deals, isLoading, error, storage, mounted, selectedMode, selectedYear,
                    threshold, minDealsThreshold, tz, uploads >>

SetSelectedYear(y) ==
    /\ Len(deals) > 0
    /\ y \in {"all"} \cup availableYears
    /\ selectedYear' = y
    /\ UNCHANGED << deals, isLoading, error, storage, mounted, selectedMode, selectedBroker,
                    threshold, minDealsThreshold, tz, uploads >>

\* the slider: onValueChange={(value) => setThreshold(value[0])}
SetThreshold(v) ==
    /\ Len(deals) > 0
    /\ threshold' = Whole(v)
    /\ UNCHANGED << deals, isLoading, error, storage, mounted, selectedMode, selectedBroker,
                    selectedYear, minDealsThreshold, tz, uploads >>

Next ==
    \/ MountLoad
    \/ \E m \in {"settled", "conversion"} : SetSelectedMode(m)
    \/ \E b \in {"all"} \cup availableBrokers : SetSelectedBroker(b)
    \/ \E y \in {"all", "2023", "2024"} : SetSelectedYear(y)
    \/ \E v \in SliderValues : SetThreshold(v)

Spec == Init /\ [][Next]_vars

\* the same page opened on the stored arrays of the weekly chart
InitWeekly ==
    /\ InitPage
    /\ storage \in WeekStoredItems

SpecWeekly == InitWeekly /\ [][Next]_vars

\* stored arrays with unusual rows: a broker named like an inherited object property,
\* a stage column holding a number (truthy, and zero), a row with every optional
\* field missing, next to an ordinary settled deal
MalformedPool ==
    { [Deal("x1", "constructor", Num(100), Str("2024-01-01")) EXCEPT !["6. Settled"] = Str("yes")],
      [Deal("x2", Amy, Num(100), Str("2024-01-01")) EXCEPT !["6. Settled"] = Num(45000)],
      Deal("x3", Amy, Null, Null),
      [Deal("x4", Jo, Num(50), Str("not a date")) EXCEPT !["3. Approval"] = Num(0)],
      [Deal("x5", Amy, Num(100), Str("2024-01-08")) EXCEPT !["6. Settled"] = Str("2024-01-15")] }

MalformedStoredItems ==
    {NoItem, CorruptItem} \cup { JsonItem(ds) : ds \in SeqsUpTo(MalformedPool, MaxDeals) }

InitMalformed ==
    /\ InitPage
    /\ storage \in MalformedStoredItems

SpecMalformed == InitMalformed /\ [][Next]_vars


----------------------------------------------------------------------------
(* Lead sources page (sessionStorage): derived values *)

WindowDays == 30
DisplayLimit == 90

\* lexical rank of the date strings of the model, the order of Array.prototype.sort():
\* "2024-01-07" < "2024-01-07T13:00:00.000Z" < "2024-01-08" < "not a date"
LexRank(s) ==
    IF s \in CalendarDays THEN DayNumber(s) * 100
    ELSE IF \E r \in DateTimes : r.s = s
         THEN LET r == CHOOSE r \in DateTimes : r.s = s
              IN  DayNumber(r.day) * 100 + 1 + r.hour
         ELSE 100 * Len(Calendar)

\* the first and the second half of a list (folds over long lists go by halves)
FirstHalf(list) == SubSeq(list, 1, Len(list) \div 2)
SecondHalf(list) == SubSeq(list, Len(list) \div 2 + 1, Len(list))

\* insertion of a string into a list sorted by LexRank, behind the entries that do
\* not rank above it
InsertByRank(sorted, x) ==
    LET p == Cardinality({ i \in 1..Len(sorted) : LexRank(sorted[i]) <= LexRank(x) })
    IN  SubSeq(sorted, 1, p) \o << x >> \o SubSeq(sorted, p + 1, Len(sorted))

\* the strings of list inserted one after the other into sorted; the result of the
\* first half is computed before the second half is entered
RECURSIVE SortStrings(_, _)
SortStrings(list, sorted) ==
    IF list = << >> THEN sorted
    ELSE IF Len(list) = 1 THEN InsertByRank(sorted, list[1])
    ELSE LET first == SortStrings(FirstHalf(list), sorted)
         IN  IF Len(first) >= 0 THEN SortStrings(SecondHalf(list), first) ELSE first

\* a faulty variant: an array push instead of Set.add
PushAlways(ids, id) == Append(ids, id)

\* Set.prototype.add: a Set keeps one copy, in insertion order
SetAdd(ids, id) == IF \E i \in 1..Len(ids) : ids[i] = id THEN ids ELSE Append(ids, id)

\* deal.latest_date || deal.created_date
LeadDate(deal) == IF Truthy(deal["latest_date"]) THEN deal["latest_date"] ELSE deal["created_date"]

\* date && date.trim() !== ''
HasDate(deal) == Truthy(LeadDate(deal)) /\ Trim(LeadDate(deal).s) # ""

\* one step of the reduce that groups deal ids by date
ByDateStep(acc, deal) ==
    IF ~HasDate(deal) THEN acc
    ELSE
    LET date == LeadDate(deal).s
        k == KeyIndex(acc, date)
        lst == IF k = 0 THEN Append(acc, [key |-> date, ids |-> << >>]) ELSE acc
        j == IF k = 0 THEN Len(lst) ELSE k
    IN  [lst EXCEPT ![j].ids = SetAdd(lst[j].ids, deal["deal_id"])]

RECURSIVE ByDate(_, _)
ByDate(ds, acc) ==
    IF ds = << >> THEN acc
    ELSE IF Len(ds) = 1 THEN ByDateStep(acc, ds[1])
    ELSE LET first == ByDate(FirstHalf(ds), acc)
         IN  IF Len(first) >= 0 THEN ByDate(SecondHalf(ds), first) ELSE first

\* "Convert sets to counts": acc[date] = dealIds.size
CountByDate(byDate) == [i \in 1..Len(byDate) |-> [key |-> byDate[i].key, count |-> Len(byDate[i].ids)]]

IsSettledStatus(deal) == deal["status"] = "6. Settled"
IsRednote(deal) == deal["From Rednote?"] = "Yes"
IsLifeX(deal) == deal["From LifeX?"] = "Yes"

settledCountByDate == CountByDate(ByDate(SelectSeq(deals, IsSettledStatus), << >>))
rednoteCountByDate == CountByDate(ByDate(SelectSeq(deals, IsRednote), << >>))

\* Array.from(new Set(list))
RECURSIVE Unique(_, _)
Unique(list, seen) ==
    IF list = << >> THEN seen
    ELSE IF Len(list) = 1 THEN SetAdd(seen, list[1])
    ELSE LET first == Unique(FirstHalf(list), seen)
         IN  IF Len(first) >= 0 THEN Unique(SecondHalf(list), first) ELSE first

\* all unique dates of the deals, sorted
allDates ==
    LET dated == SelectSeq(deals, HasDate)
    IN  SortStrings(Unique([i \in 1..Len(dated) |-> LeadDate(dated[i]).s], << >>), << >>)

\* dateObj >= thirtyDaysBefore && dateObj <= current; every comparison with NaN is false
InWindow(dateObj, current) ==
    /\ dateObj.valid /\ current.valid
    /\ dateObj.t >= current.t - WindowDays * HoursPerDay
    /\ dateObj.t <= current.t

RECURSIVE WindowSum(_, _)
WindowSum(entries, current) ==
    IF entries = << >> THEN 0
    ELSE IF Len(entries) = 1
         THEN (IF InWindow(ParseDate(entries[1].key), current) THEN entries[1].count ELSE 0)
    ELSE WindowSum(FirstHalf(entries), current) + WindowSum(SecondHalf(entries), current)

\* a faulty variant: the mean over the dates present in the window
calculate30DayRollingMean(dateValueMap, targetDate, allAvailableDates) ==
    LET current == ParseDate(targetDate)
        present == SelectSeq(dateValueMap, LAMBDA e : InWindow(ParseDate(e.key), current))
    IN  IF Len(allAvailableDates) = 0 \/ Len(present) = 0 THEN FracZero
        ELSE Frac(WindowSum(dateValueMap, current), Len(present))

\* the fixed-divisor rolling average
calculate30DayRollingAvg(dateValueMap, targetDate, allAvailableDates) ==
    IF Len(allAvailableDates) = 0 THEN FracZero
    ELSE Frac(WindowSum(dateValueMap, ParseDate(targetDate)), WindowDays)

\* a faulty variant: the first n entries, array.slice(0, n)
FirstN(list, n) == IF Len(list) <= n THEN list ELSE SubSeq(list, 1, n)

\* array.slice(-n)
LastN(list, n) == IF Len(list) <= n THEN list ELSE SubSeq(list, Len(list) - n + 1, Len(list))

\* the chart series before truncation
leadSeries ==
    LET dates == allDates
        settled == settledCountByDate
        rednote == rednoteCountByDate
    IN  IF Len(deals) = 0 \/ Len(dates) = 0 THEN << >>
        ELSE [i \in 1..Len(dates) |->
                [date |-> dates[i],
                 settledDeals30DayAvg |-> calculate30DayRollingAvg(settled, dates[i], dates),
                 rednoteDeals30DayAvg |-> calculate30DayRollingAvg(rednote, dates[i], dates)]]

\* the chartData memo of the lead sources page
leadChartData == LastN(leadSeries, DisplayLimit)

CountIf(ds, Test(_)) == Len(SelectSeq(ds, Test))

\* the conversion-rate part of the summaryMetrics memo
summaryMetrics ==
    IF Len(deals) = 0
    THEN [totalLeads |-> 0, conversionRate |-> FracZero, rednoteLeads |-> 0, lifexLeads |-> 0,
          otherLeads |-> 0, settledDeals |-> 0, rednotePercentage |-> FracZero,
          lifexPercentage |-> FracZero, rednoteConversionRate |-> FracZero,
          lifexConversionRate |-> FracZero, otherConversionRate |-> FracZero]
    ELSE
    LET totalLeads == Len(deals)
        settledDeals == CountIf(deals, IsSettledStatus)
        rednoteLeads == CountIf(deals, IsRednote)
        lifexLeads == CountIf(deals, IsLifeX)
        otherLeads == totalLeads - rednoteLeads - lifexLeads
        rednoteSettledDeals == CountIf(deals, LAMBDA d : IsRednote(d) /\ IsSettledStatus(d))
        lifexSettledDeals == CountIf(deals, LAMBDA d : IsLifeX(d) /\ IsSettledStatus(d))
        otherSettledDeals ==
            CountIf(deals, LAMBDA d : ~IsRednote(d) /\ ~IsLifeX(d) /\ IsSettledStatus(d))
    IN  [totalLeads |-> totalLeads,
         conversionRate |-> Rate(settledDeals, totalLeads),
         rednoteLeads |-> rednoteLeads,
         lifexLeads |-> lifexLeads,
         otherLeads |-> otherLeads,
         settledDeals |-> settledDeals,
         rednotePercentage |-> Rate(rednoteLeads, totalLeads),
         lifexPercentage |-> Rate(lifexLeads, totalLeads),
         rednoteConversionRate |-> Rate(rednoteSettledDeals, rednoteLeads),
         lifexConversionRate |-> Rate(lifexSettledDeals, lifexLeads),
         otherConversionRate |-> Rate(otherSettledDeals, otherLeads)]

----------------------------------------------------------------------------
(* Lead sources page (sessionStorage): state machine *)

Lead(id, status, rednote, lifex, latest, created, value) ==
    [BaseDeal EXCEPT !["deal_id"] = id, !["broker_name"] = Amy, !["status"] = status,
                     !["From Rednote?"] = rednote, !["From LifeX?"] = lifex,
                     !["latest_date"] = latest, !["created_date"] = created,
                     !["deal_value"] = value]

\* the deals the dashboard can have stored for this page
LeadPool ==
    { Lead("a", "6. Settled", "No", "No", Str("2024-01-01"), Null, Num(100)),
      Lead("b", "6. Settled", "Yes", "Yes", Null, Str("2024-01-31"), Num(250)),
      Lead("c", "Lost", "Yes", "No", Str("2024-02-01"), Str("2024-01-01"), Null),
      Lead("d", "6. Settled", "No", "No", Str("not a date"), Null, Num(0)),
      Lead("e", "6. Settled", "Yes", "No", Str("2024-01-07T13:00:00.000Z"), Null, Num(100)),
      Lead("f", "6. Settled", "No", "No", Str(" "), Str("2024-01-07"), Num(100)),
      Lead("g", "6. Settled", "No", "Yes", Str("2024-01-01"), Null, Num(50)),
      Lead("h", "6. Settled", "No", "No", Str("2024-01-07T11:00:00.000Z"), Null, Num(100)) }

LeadStoredItems ==
    {NoItem, CorruptItem} \cup { JsonItem(ds) : ds \in SeqsUpTo(LeadPool, MaxLeadDeals) }

InitLead ==
    /\ deals = << >>
    /\ isLoading = TRUE
    /\ error = NoError
    /\ mounted = FALSE
    /\ storage \in LeadStoredItems
    /\ selectedMode = "settled"
    /\ selectedBroker = "all"
    /\ selectedYear = "all"
    /\ threshold = Whole(20)
    /\ minDealsThreshold = 5
    /\ tz \in TimeZones
    /\ uploads = {}

\* loadDeals, run by the mount effect's timer
LeadLoadDeals ==
    /\ ~mounted
    /\ mounted' = TRUE
    /\ IF storage.kind = "json"
       THEN deals' = storage.val /\ error' = NoError
       ELSE IF storage.kind = "corrupt"
            THEN deals' = deals /\ error' = "Unexpected token"
            ELSE deals' = deals
                 /\ error' = "No data found. Please upload deals data in the dashboard first."
    /\ isLoading' = FALSE
    /\ UNCHANGED << storage, selectedMode, selectedBroker, selectedYear, threshold,
                    minDealsThreshold, tz, uploads >>

NextLead == LeadLoadDeals

SpecLead == InitLead /\ [][NextLead]_vars

\* a stored deal per calendar day: the deal of day i, every second one settled, every
\* third one from Rednote
DailyLead(i) ==
    Lead(Calendar[i], IF i % 2 = 0 THEN "6. Settled" ELSE "Lost",
         IF i % 3 = 0 THEN "Yes" ELSE "No", "No", Str(Calendar[i]), Null, Num(100))

\* stored arrays with the deals of the latest n days first, followed by deals without
\* a date or with a date string that does not parse
DailyArrays ==
    { [i \in 1..n |-> DailyLead(n - i + 1)] \o extra :
        n \in 0..Len(Calendar),
        extra \in { << >>,
                    << Lead("u", "6. Settled", "Yes", "No", Null, Null, Num(100)) >>,
                    << Lead("d", "6. Settled", "No", "No", Str("not a date"), Null, Num(0)) >> } }

\* the sessionStorage page opened on a long history
InitLeadDaily ==
    /\ deals = << >>
    /\ isLoading = TRUE
    /\ error = NoError
    /\ mounted = FALSE
    /\ storage \in { JsonItem(ds) : ds \in DailyArrays }
    /\ selectedMode = "settled"
    /\ selectedBroker = "all"
    /\ selectedYear = "all"
    /\ threshold = Whole(20)
    /\ minDealsThreshold = 5
    /\ tz \in TimeZones
    /\ uploads = {}

SpecLeadDaily == InitLeadDaily /\ [][NextLead]_vars

----------------------------------------------------------------------------
(* Lead sources page (sample data): derived values *)

\* Date.prototype.setDate(getDate() + k): k local calendar days on, same local time
AddLocalDays(h, k, zone) == FromLocal(LocalDay(h, zone) + k, LocalHour(h, zone), zone)

\* dateValueMap[dateStr] || 0
CountAt(dateValueMap, dateStr) ==
    LET k == KeyIndex(dateValueMap, dateStr) IN IF k = 0 THEN 0 ELSE dateValueMap[k].count

\* the for loop over the days of the window: [sum, dayCount]
RECURSIVE WindowLoop(_, _, _, _, _)
WindowLoop(dateValueMap, d, current, acc, zone) ==
    IF ~(d <= current) THEN acc
    ELSE WindowLoop(dateValueMap, AddLocalDays(d, 1, zone), current,
                    [sum |-> acc.sum + CountAt(dateValueMap, IsoDate(d)),
                     dayCount |-> acc.dayCount + 1], zone)

NullNumber == [isNull |-> TRUE, v |-> FracZero]
Number(x) == [isNull |-> FALSE, v |-> x]

\* the full-window rolling average: number | null
calculate30DayRollingSum(dateValueMap, targetDate, zone) ==
    LET current == ParseDate(targetDate) IN
    IF ~current.valid THEN NullNumber
    ELSE
    LET thirtyDaysBefore == AddLocalDays(current.t, 0 - WindowDays, zone)
        loop == WindowLoop(dateValueMap, thirtyDaysBefore, current.t,
                           [sum |-> 0, dayCount |-> 0], zone)
    IN  IF loop.dayCount >= WindowDays THEN Number(Frac(loop.sum, WindowDays)) ELSE NullNumber

\* availableYears of the sample page: the local years of created_date
sampleAvailableYears ==
    { GetFullYear(ParseDate(deals[i]["created_date"].s), tz) :
        i \in { j \in 1..Len(deals) : Truthy(deals[j]["created_date"]) } }

sampleFilteredDeals ==
    IF selectedYear = "all" THEN deals
    ELSE SelectSeq(deals,
            LAMBDA deal : GetFullYear(ParseDate(deal["created_date"].s), tz) = selectedYear)

\* acc[date] = (acc[date] || 0) + 1
RowCountStep(acc, deal) ==
    LET date == deal["created_date"].s
        k == KeyIndex(acc, date)
    IN  IF k = 0 THEN Append(acc, [key |-> date, count |-> 1])
        ELSE [acc EXCEPT ![k].count = acc[k].count + 1]

RECURSIVE RowCounts(_, _)
RowCounts(ds, acc) == IF ds = << >> THEN acc ELSE RowCounts(Tail(ds), RowCountStep(acc, Head(ds)))

sampleSettledByDate == RowCounts(SelectSeq(sampleFilteredDeals, IsSettledStatus), << >>)
sampleRednoteByDate == RowCounts(SelectSeq(sampleFilteredDeals, IsRednote), << >>)

Keys(map) == [i \in 1..Len(map) |-> map[i].key]

sampleAllDates ==
    SortStrings(Unique(Keys(sampleSettledByDate) \o Keys(sampleRednoteByDate), << >>), << >>)

\* one point per date, before the null filter
sampleResult ==
    IF Len(deals) = 0 THEN << >>
    ELSE [i \in 1..Len(sampleAllDates) |->
            [date |-> sampleAllDates[i],
             settledDeals30DayAvg |-> calculate30DayRollingSum(sampleSettledByDate, sampleAllDates[i], tz),
             rednoteDeals30DayAvg |-> calculate30DayRollingSum(sampleRednoteByDate, sampleAllDates[i], tz)]]

\* the chartData memo of the sample page
sampleChartData ==
    SelectSeq(sampleResult,
              LAMBDA d : ~d.settledDeals30DayAvg.isNull \/ ~d.rednoteDeals30DayAvg.isNull)

----------------------------------------------------------------------------
(* Lead sources page (sample data): state machine *)

\* `deal_${i}`
SampleIds == << "deal_0", "deal_1", "deal_2", "deal_3" >>

\* the created_date values the model's generator draws (2023-01-01 .. 2025-01-10 in the code)
SampleDays == {"2023-12-31", "2024-01-01", "2024-01-31", "2024-02-01"}

SampleDeal(i, day, isRednote, isSettled, isLifeX) ==
    [BaseDeal EXCEPT !["deal_id"] = SampleIds[i + 1],
                     !["broker_name"] = "Broker 0",
                     !["status"] = IF isSettled THEN "6. Settled" ELSE "1. Application",
                     !["deal_value"] = Num(100),
                     !["From Rednote?"] = IF isRednote THEN "Yes" ELSE "No",
                     !["From LifeX?"] = IF ~isRednote /\ isLifeX THEN "Yes" ELSE "No",
                     !["created_date"] = Str(day)]

\* the deals the i-th iteration of the generator can push
SampleDealsAt(i) ==
    { SampleDeal(i, day, r, st, l) : day \in SampleDays, r \in BOOLEAN, st \in BOOLEAN, l \in BOOLEAN }

\* stable insertion by new Date(created_date).getTime()
RECURSIVE InsertByCreated(_, _)
InsertByCreated(sorted, x) ==
    IF sorted = << >> THEN << x >>
    ELSE IF ParseDate(x["created_date"].s).t < ParseDate(Head(sorted)["created_date"].s).t
         THEN << x >> \o sorted
         ELSE << Head(sorted) >> \o InsertByCreated(Tail(sorted), x)

RECURSIVE SortByCreated(_, _)
SortByCreated(list, sorted) ==
    IF list = << >> THEN sorted
    ELSE SortByCreated(Tail(list), InsertByCreated(sorted, Head(list)))

\* the arrays the generating loop can have pushed after n iterations
RECURSIVE SampleLoop(_)
SampleLoop(n) ==
    IF n = 0 THEN { << >> }
    ELSE { Append(ds, d) : ds \in SampleLoop(n - 1), d \in SampleDealsAt(n - 1) }

\* every array generateSampleDeals can return
generateSampleDeals == { SortByCreated(ds, << >>) : ds \in SampleLoop(MaxSampleDeals) }

InitSample ==
    /\ deals = << >>
    /\ isLoading = TRUE
    /\ error = NoError
    /\ mounted = FALSE
    /\ storage = NoItem
    /\ selectedMode = "settled"
    /\ selectedBroker = "all"
    /\ selectedYear = "all"
    /\ threshold = Whole(20)
    /\ minDealsThreshold = 5
    /\ tz \in TimeZones
    /\ uploads = {}

\* loadDeals of the mount effect: the generated sample becomes the deals
SampleLoadDeals ==
    /\ ~mounted
    /\ mounted' = TRUE
    /\ deals' \in generateSampleDeals
    /\ error' = NoError
    /\ isLoading' = FALSE
    /\ UNCHANGED << storage, selectedMode, selectedBroker, selectedYear, threshold,
                    minDealsThreshold, tz, uploads >>

\* the year Select of the sample page
SampleSetSelectedYear(y) ==
    /\ y \in {"all"} \cup sampleAvailableYears
    /\ selectedYear' = y
    /\ UNCHANGED << deals, isLoading, error, storage, mounted, selectedMode, selectedBroker,
                    threshold, minDealsThreshold, tz, uploads >>

NextSample ==
    \/ SampleLoadDeals
    \/ \E y \in {"all", "2023", "2024"} : SampleSetSelectedYear(y)

SpecSample == InitSample /\ [][NextSample]_vars

\* the rows the chart computation of the sample page is applied to, duplicates included
SampleRowPool ==
    { SampleDeal(0, "2024-01-01", TRUE, TRUE, FALSE),
      SampleDeal(1, "2024-01-01", FALSE, TRUE, TRUE),
      SampleDeal(2, "2023-12-31", TRUE, FALSE, FALSE),
      SampleDeal(0, "2024-01-31", TRUE, TRUE, FALSE) }

\* the chartData memo as a function of (deals, selectedYear): any deal array
InitSampleRows ==
    /\ deals \in SeqsUpTo(SampleRowPool, MaxRows)
    /\ isLoading = FALSE
    /\ error = NoError
    /\ mounted = TRUE
    /\ storage = NoItem
    /\ selectedMode = "settled"
    /\ selectedBroker = "all"
    /\ selectedYear = "all"
    /\ threshold = Whole(20)
    /\ minDealsThreshold = 5
    /\ tz \in TimeZones
    /\ uploads = {}

NextSampleRows == \E y \in {"all", "2023", "2024"} : SampleSetSelectedYear(y)

SpecSampleRows == InitSampleRows /\ [][NextSampleRows]_vars

\* rows around a target day: the day itself, the day before it, the days 30 and 31
\* days before it, and a day long before
WindowRowPool ==
    { SampleDeal(0, "2024-03-11", FALSE, TRUE, FALSE),
      SampleDeal(1, "2024-03-10", TRUE, TRUE, FALSE),
      SampleDeal(2, "2024-02-10", TRUE, FALSE, FALSE),
      SampleDeal(0, "2024-02-09", FALSE, TRUE, FALSE),
      SampleDeal(1, "2024-01-01", TRUE, TRUE, FALSE) }

\* the zones the rolling windows are computed in
WindowZones == TimeZones \cup {Casablanca}

\* the chart computation of the sample page on any deal array, in any zone
InitWindow ==
    /\ deals \in SeqsUpTo(WindowRowPool, MaxRows)
    /\ isLoading = FALSE
    /\ error = NoError
    /\ mounted = TRUE
    /\ storage = NoItem
    /\ selectedMode = "settled"
    /\ selectedBroker = "all"
    /\ selectedYear = "all"
    /\ threshold = Whole(20)
    /\ minDealsThreshold = 5
    /\ tz \in WindowZones
    /\ uploads = {}

SpecWindow == InitWindow /\ [][NextSampleRows]_vars

----------------------------------------------------------------------------
(* Properties of the broker performance page *)

\* a field holds a string that is not empty after trimming
NonEmpty(v) == v.t = "str" /\ Trim(v.s) # ""

\* the sum of f over a finite set of indices
RECURSIVE SumOver(_, _)
SumOver(S, f) ==
    IF S = {} THEN 0
    ELSE LET i == CHOOSE i \in S : TRUE IN f[i] + SumOver(S \ {i}, f)

\* indices of the filtered deals of a broker
DealsOfBroker(name) == { i \in 1..Len(filteredDeals) : filteredDeals[i]["broker_name"] = name }
SettledOfBroker(name) == { i \in DealsOfBroker(name) : NonEmpty(filteredDeals[i]["6. Settled"]) }
ConvertedOfBroker(name) ==
    { i \in DealsOfBroker(name) :
        \E k \in 1..Len(ConvertedFields) : NonEmpty(filteredDeals[i][ConvertedFields[k]]) }

\* the brokerPerformance of the page variant without filters (sorted by settled value)
brokerPerformanceUnfiltered == BrokerPerformanceOf(deals, "settled")

Ordered(e) == e.settledDeals <= e.convertedDeals /\ e.convertedDeals <= e.totalDeals

\* C1: every BrokerPerformance entry, for every deal set and filter setting, has
\* settledDeals <= convertedDeals <= totalDeals (in the filtered page and in the
\* unfiltered page variant).
C1_CountsOrdered ==
    /\ \A i \in 1..Len(brokerPerformance.list) : Ordered(brokerPerformance.list[i])
    /\ \A i \in 1..Len(brokerPerformanceUnfiltered.list) :
          Ordered(brokerPerformanceUnfiltered.list[i])

\* a broker with a settled deal, a deal that is converted but not settled, and a
\* deal that is neither
C1_Witness ==
    \E i \in 1..Len(brokerPerformance.list) :
        LET e == brokerPerformance.list[i]
        IN  0 < e.settledDeals /\ e.settledDeals < e.convertedDeals
            /\ e.convertedDeals < e.totalDeals

\* C2: every entry's totalDeals, settledDeals, convertedDeals, settledValue and
\* avgDealValue are the counts and sums over the filtered deals of its broker_name:
\* settled = "6. Settled" non-empty after trim, converted = any of the eight stage
\* fields non-empty after trim, settledValue = sum of deal_value (missing as 0) over
\* the settled deals, avgDealValue = settledValue / settledDeals (0 when none).
C2_EntryFields ==
    \A i \in 1..Len(brokerPerformance.list) :
        LET e == brokerPerformance.list[i]
            settled == SettledOfBroker(e.brokerName)
            value == [j \in 1..Len(filteredDeals) |->
                        IF filteredDeals[j]["deal_value"].t = "num"
                        THEN filteredDeals[j]["deal_value"].n ELSE 0]
        IN  /\ e.totalDeals = Cardinality(DealsOfBroker(e.brokerName))
            /\ e.settledDeals = Cardinality(settled)
            /\ e.convertedDeals = Cardinality(ConvertedOfBroker(e.brokerName))
            /\ e.settledValue = SumOver(settled, value)
            /\ IF e.settledDeals = 0 THEN e.avgDealValue = FracZero
               ELSE /\ e.avgDealValue.den # 0
                    /\ e.avgDealValue.num * e.settledDeals = e.settledValue * e.avgDealValue.den

\* the end-to-end example: two deals of one broker, one settled with value 100, one
\* with only an application
C2_Witness ==
    /\ Len(filteredDeals) = 2
    /\ \E i \in 1..Len(brokerPerformance.list) :
        LET e == brokerPerformance.list[i]
        IN  /\ e.totalDeals = 2 /\ e.settledDeals = 1 /\ e.convertedDeals = 2
            /\ e.settledValue = 100 /\ FracEq(e.avgDealValue, Frac(100, 1))
            /\ FracEq(e.settledRate, Frac(50, 1)) /\ FracEq(e.conversionRate, Frac(100, 1))

\* a rate is count / total * 100 and lies in [0, 100]
RateIs(r, count, total) ==
    /\ r.den > 0
    /\ r.num * total = count * 100 * r.den
    /\ 0 <= r.num /\ r.num <= 100 * r.den

\* the weekly buckets of the selected broker, as the chart computes them
weeklyData == WeeklyData(weeklyGroups.list, selectedMode, threshold)

\* C3: settledRate and conversionRate of every BrokerPerformance entry and of every
\* weekly bucket are count / total * 100, lie in [0, 100], and the rate of a zero
\* total is 0.
C3_Rates ==
    /\ \A i \in 1..Len(brokerPerformance.list) :
        LET e == brokerPerformance.list[i]
        IN  /\ RateIs(e.settledRate, e.settledDeals, e.totalDeals)
            /\ RateIs(e.conversionRate, e.convertedDeals, e.totalDeals)
    /\ \A i \in 1..Len(weeklyData) :
        LET w == weeklyData[i]
        IN  /\ RateIs(w.settledRate, w.settledDeals, w.totalDeals)
            /\ RateIs(w.conversionRate, w.convertedDeals, w.totalDeals)
            /\ w.rate = IF selectedMode = "settled" THEN w.settledRate ELSE w.conversionRate
    /\ \A c \in 0..MaxDeals : Rate(c, 0) = FracZero

\* a broker entry and a weekly bucket with a settled rate of 50 and a conversion
\* rate of 100
C3_Witness ==
    /\ \E i \in 1..Len(brokerPerformance.list) :
          /\ FracEq(brokerPerformance.list[i].settledRate, Frac(50, 1))
          /\ FracEq(brokerPerformance.list[i].conversionRate, Frac(100, 1))
    /\ \E i \in 1..Len(weeklyData) :
          /\ FracEq(weeklyData[i].settledRate, Frac(50, 1))
          /\ FracEq(weeklyData[i].conversionRate, Frac(100, 1))

\* the Monday of the week of a calendar day (day 0 is a Monday)
MondayOf(s) == DayString(DayNumber(s) - (DayNumber(s) % 7))

\* C9: every deal of the selected broker whose latest_date is a calendar day D lies
\* in the weekly bucket keyed by the Monday of D's week, whatever the time zone.
C9_WeekKeyIsMonday ==
    \A g \in 1..Len(weeklyGroups.list) :
        \A d \in 1..Len(weeklyGroups.list[g].deals) :
            LET deal == weeklyGroups.list[g].deals[d]
            IN  deal["latest_date"].s \in CalendarDays
                => weeklyGroups.list[g].key = MondayOf(deal["latest_date"].s)

\* C10: every weekly bucket is in exactly one category, "<" iff its totalDeals is
\* below the threshold; the categories' weekCount sum to the number of buckets and
\* their totalDeals to the number of the broker's filtered deals with a parseable
\* latest_date.
C10_Partition ==
    (selectedBroker # "all" /\ ~chartData.threw) =>
    LET groups == weeklyGroups.list
        below == { g \in 1..Len(groups) : FracLt(Whole(groups[g].totalDeals), threshold) }
        above == { g \in 1..Len(groups) : ~FracLt(Whole(groups[g].totalDeals), threshold) }
        size == [g \in 1..Len(groups) |-> groups[g].totalDeals]
        cats == chartData.list
        dated == { i \in 1..Len(filteredDeals) :
                     /\ filteredDeals[i]["broker_name"] = selectedBroker
                     /\ Truthy(filteredDeals[i]["latest_date"])
                     /\ ParseDate(filteredDeals[i]["latest_date"].s).valid }
    IN  /\ \A c \in 1..Len(cats) :
            /\ cats[c].category \in {"<", ">="}
            /\ cats[c].category = "<" =>
                  cats[c].weekCount = Cardinality(below)
                  /\ cats[c].totalDeals = SumOver(below, size)
            /\ cats[c].category = ">=" =>
                  cats[c].weekCount = Cardinality(above)
                  /\ cats[c].totalDeals = SumOver(above, size)
        /\ \A c1, c2 \in 1..Len(cats) : cats[c1].category = cats[c2].category => c1 = c2
        /\ SumField(cats, "weekCount") = Len(groups)
        /\ SumField(cats, "totalDeals") = Cardinality(dated)

\* a week at the threshold and a week below it, one in each category
C10_Witness ==
    /\ Len(chartData.list) = 2
    /\ threshold = Whole(2)
    /\ chartData.list[1].category = "<" /\ chartData.list[1].totalDeals = 1
    /\ chartData.list[2].category = ">=" /\ chartData.list[2].totalDeals = 2


----------------------------------------------------------------------------
(* Properties of the lead sources pages *)

Percent(r) == r.den > 0 /\ 0 <= r.num /\ r.num <= 100 * r.den

\* C4: every conversion rate of the lead-source summary (overall, Rednote, LifeX,
\* other) lies in [0, 100], also when a deal is flagged "Yes" for both sources.
C4_SummaryRatesInRange ==
    /\ Percent(summaryMetrics.conversionRate)
    /\ Percent(summaryMetrics.rednoteConversionRate)
    /\ Percent(summaryMetrics.lifexConversionRate)
    /\ Percent(summaryMetrics.otherConversionRate)

\* the earliest created_date of the deals the sample chart is computed from
EarliestDay ==
    LET days == { DayNumber(sampleFilteredDeals[i]["created_date"].s) :
                    i \in 1..Len(sampleFilteredDeals) }
    IN  CHOOSE d \in days : \A e \in days : d <= e

\* C5: the full-window rolling average of a plotted date d is null while d is less
\* than 30 days after the earliest date of the data, and a number from then on.
C5_NullUntilFullWindow ==
    \A i \in 1..Len(sampleResult) :
        LET p == sampleResult[i]
            early == DayNumber(p.date) - EarliestDay < 30
        IN  /\ p.settledDeals30DayAvg.isNull = early
            /\ p.rednoteDeals30DayAvg.isNull = early

\* the counts of a map whose date lies in [d - 30 days, d], summed
ClosedWindowSum(map, d) ==
    LET inside == { i \in 1..Len(map) :
                      /\ ParseDate(map[i].key).valid /\ ParseDate(d).valid
                      /\ ParseDate(d).t - 30 * 24 <= ParseDate(map[i].key).t
                      /\ ParseDate(map[i].key).t <= ParseDate(d).t }
    IN  SumOver(inside, [i \in 1..Len(map) |-> map[i].count])

IsOverThirty(x, sum) == x.den # 0 /\ x.num * 30 = sum * x.den

\* C6: the fixed-divisor rolling average of every plotted date d is the sum of the
\* counts dated in [d - 30 days, d] divided by 30, whatever the number of dates
\* present, and is 0 when there are no dates at all.
C6_FixedDivisor ==
    /\ \A i \in 1..Len(leadChartData) :
        LET p == leadChartData[i]
        IN  /\ IsOverThirty(p.settledDeals30DayAvg, ClosedWindowSum(settledCountByDate, p.date))
            /\ IsOverThirty(p.rednoteDeals30DayAvg, ClosedWindowSum(rednoteCountByDate, p.date))
    /\ \A d \in {"2024-01-01", "not a date"} :
          calculate30DayRollingAvg(settledCountByDate, d, << >>) = FracZero

PointIs(p, date, settledSum) ==
    p.date = date /\ IsOverThirty(p.settledDeals30DayAvg, settledSum)

\* settled deals on 2024-01-01 and 2024-01-31 and a date on 2024-02-01: the window of
\* 01-31 reaches back to 01-01 inclusive, the window of 02-01 does not
C6_Witness ==
    /\ Len(leadChartData) = 3
    /\ PointIs(leadChartData[1], "2024-01-01", 1)
    /\ PointIs(leadChartData[2], "2024-01-31", 2)
    /\ PointIs(leadChartData[3], "2024-02-01", 1)

\* rows of the deals with a date key that pass a test
RowsOn(ds, Test(_), key) ==
    { i \in 1..Len(ds) : Test(ds[i]) /\ HasDate(ds[i]) /\ LeadDate(ds[i]).s = key }

DistinctCounts(map, Test(_)) ==
    /\ \A e \in 1..Len(map) :
          map[e].count = Cardinality({ deals[i]["deal_id"] : i \in RowsOn(deals, Test, map[e].key) })
    /\ \A i \in 1..Len(deals) :
          (Test(deals[i]) /\ HasDate(deals[i]))
              => \E e \in 1..Len(map) : map[e].key = LeadDate(deals[i]).s

\* C7: the settled and Rednote buckets of the sessionStorage-backed page hold, per
\* date, the number of distinct deal_id: rows sharing deal_id and date count once.
C7_DistinctPerDate ==
    /\ DistinctCounts(settledCountByDate, IsSettledStatus)
    /\ DistinctCounts(rednoteCountByDate, IsRednote)

\* three settled rows on one date, two of them the same deal
C7_Witness ==
    \E e \in 1..Len(settledCountByDate) :
        /\ settledCountByDate[e].count = 2
        /\ Cardinality(RowsOn(deals, IsSettledStatus, settledCountByDate[e].key)) = 3

SampleDistinctCounts(map, Test(_)) ==
    \A e \in 1..Len(map) :
        map[e].count =
            Cardinality({ sampleFilteredDeals[i]["deal_id"] :
                            i \in { j \in 1..Len(sampleFilteredDeals) :
                                      /\ Test(sampleFilteredDeals[j])
                                      /\ sampleFilteredDeals[j]["created_date"].s = map[e].key } })

----------------------------------------------------------------------------
(* Properties of the weekly threshold chart *)

\* the sum of the fractions f[i], i in S
RECURSIVE FracSumOver(_, _)
FracSumOver(S, f) ==
    IF S = {} THEN FracZero
    ELSE LET i == CHOOSE i \in S : TRUE IN FracAdd(f[i], FracSumOver(S \ {i}, f))

\* the arithmetic mean of the fractions f[i], i in S (S not empty)
MeanOver(S, f) == LET sum == FracSumOver(S, f) IN Frac(sum.num, sum.den * Cardinality(S))

\* x is a number of tenths and the nearest such number to m
RoundsTo(x, m) ==
    /\ x.den = 10 /\ m.den > 0
    /\ 2 * (x.num * m.den - 10 * m.num) <= m.den
    /\ 2 * (10 * m.num - x.num * m.den) <= m.den

\* the indices of the weekly buckets that contribute to a category
WeeksOf(category) ==
    { g \in 1..Len(weeklyGroups.list) :
        (category = "<") = FracLt(Whole(weeklyGroups.list[g].totalDeals), threshold) }

\* C11: the rate of every emitted category is the arithmetic mean of the own rates
\* of its contributing weeks (settled rate in settled mode, conversion rate in
\* conversion mode), shown rounded to one decimal; avgSettledRate and
\* avgConversionRate are the unrounded means.
C11_MeanOfWeekRates ==
    (selectedBroker # "all" /\ ~chartData.threw) =>
    \A c \in 1..Len(chartData.list) :
        LET cat == chartData.list[c]
            weeks == WeeksOf(cat.category)
            groups == weeklyGroups.list
            settledRates == [g \in 1..Len(groups) |->
                               Frac(groups[g].settledDeals * 100, groups[g].totalDeals)]
            conversionRates == [g \in 1..Len(groups) |->
                                  Frac(groups[g].convertedDeals * 100, groups[g].totalDeals)]
            own == IF selectedMode = "settled" THEN settledRates ELSE conversionRates
        IN  /\ weeks # {}
            /\ RoundsTo(cat.rate, MeanOver(weeks, own))
            /\ FracEq(cat.avgSettledRate, MeanOver(weeks, settledRates))
            /\ FracEq(cat.avgConversionRate, MeanOver(weeks, conversionRates))

\* a category of a week of two deals (one settled) and a week of one deal (none
\* settled): the mean of the week rates is 25, the pooled rate would be 33.3
C11_Witness ==
    /\ selectedMode = "settled"
    /\ Len(chartData.list) = 1
    /\ chartData.list[1].weekCount = 2
    /\ chartData.list[1].totalDeals = 3
    /\ FracEq(chartData.list[1].rate, Frac(25, 1))
    /\ \E g \in 1..Len(weeklyGroups.list) :
          weeklyGroups.list[g].totalDeals = 2 /\ weeklyGroups.list[g].settledDeals = 1

\* the categories the chart emits
EmittedCategories == { chartData.list[c].category : c \in 1..Len(chartData.list) }

\* C12: the weekly chart emits at most two categories, a category exactly when at
\* least one week contributes to it (never with weekCount 0); with threshold 0 there
\* is no "<" category, and with selectedBroker = 'all' or no deals of the broker the
\* chart is empty.
C12_CategoriesEmitted ==
    ~chartData.threw =>
    /\ Len(chartData.list) <= 2
    /\ \A c1, c2 \in 1..Len(chartData.list) :
          chartData.list[c1].category = chartData.list[c2].category => c1 = c2
    /\ \A c \in 1..Len(chartData.list) : chartData.list[c].weekCount > 0
    /\ EmittedCategories \subseteq {"<", ">="}
    /\ selectedBroker # "all" =>
          \A label \in {"<", ">="} : (label \in EmittedCategories) = (WeeksOf(label) # {})
    /\ threshold = Whole(0) => "<" \notin EmittedCategories
    /\ (selectedBroker = "all" \/ DealsOfBroker(selectedBroker) = {}) => chartData.list = << >>

\* threshold 0 with weeks of the selected broker: only the ">=" category is emitted
C12_Witness ==
    /\ threshold = Whole(0)
    /\ selectedBroker # "all"
    /\ Len(weeklyGroups.list) = 2
    /\ Len(chartData.list) = 1
    /\ chartData.list[1].category = ">="
    /\ chartData.list[1].weekCount = 2

----------------------------------------------------------------------------
(* Properties of the BrokerPerformance list *)

\* consecutive entries do not increase in the sort key of the mode
NonIncreasing(list, mode) ==
    \A i \in 1..Len(list) - 1 :
        IF mode = "settled" THEN list[i].settledValue >= list[i + 1].settledValue
        ELSE FracLe(list[i + 1].conversionRate, list[i].conversionRate)

\* C13: consecutive entries of the BrokerPerformance list are non-increasing in
\* settledValue in settled mode and in conversionRate in conversion mode (the page
\* variant without a mode sorts by settledValue).
C13_SortedByMode ==
    /\ NonIncreasing(brokerPerformance.list, selectedMode)
    /\ NonIncreasing(brokerPerformanceUnfiltered.list, "settled")

\* conversion mode: the broker met second comes first with the higher conversion
\* rate although its settled value is the lower one
C13_Witness ==
    /\ selectedMode = "conversion"
    /\ Len(brokerPerformance.list) = 2
    /\ brokerPerformance.list[2].brokerName = filteredDeals[1]["broker_name"]
    /\ FracLt(brokerPerformance.list[2].conversionRate, brokerPerformance.list[1].conversionRate)
    /\ brokerPerformance.list[1].settledValue < brokerPerformance.list[2].settledValue

\* the BrokerPerformance list has exactly one entry per broker_name of the deal array
OnePerBroker(list, ds) ==
    LET names == { ds[i]["broker_name"] : i \in 1..Len(ds) }
    IN  /\ { list[i].brokerName : i \in 1..Len(list) } = names
        /\ Len(list) = Cardinality(names)
        /\ SumField(list, "totalDeals") = Len(ds)
        /\ ds = << >> => list = << >>

\* C14: brokerPerformance has exactly one entry per distinct broker_name of the
\* filtered deals (none twice, none missing), the entries' totalDeals sum to the
\* number of filtered deals, and no filtered deals give an empty list.
C14_OneEntryPerBroker ==
    /\ OnePerBroker(brokerPerformance.list, filteredDeals)
    /\ OnePerBroker(brokerPerformanceUnfiltered.list, deals)

\* three filtered deals of two brokers, the first broker met again after the second
C14_Witness ==
    /\ Len(filteredDeals) = 3
    /\ filteredDeals[1]["broker_name"] = filteredDeals[3]["broker_name"]
    /\ filteredDeals[1]["broker_name"] # filteredDeals[2]["broker_name"]
    /\ Len(brokerPerformance.list) = 2

----------------------------------------------------------------------------
(* Broker performance page without filters (localStorage): state machine *)

\* filteredBrokers of the page variant with the "Minimum Deals Required" input
unfilteredFilteredBrokers ==
    filterByMinimumDeals(brokerPerformanceUnfiltered.list, minDealsThreshold)

\* the values typed into the "Minimum Deals Required" input
MinDealsValues == {0, 1, 2, 3}

\* onChange={(e) => setMinDealsThreshold(Number(e.target.value))}
SetMinDealsThreshold(v) ==
    /\ Len(deals) > 0
    /\ minDealsThreshold' = v
    /\ UNCHANGED << deals, isLoading, error, storage, mounted, selectedMode, selectedBroker,
                    selectedYear, threshold, tz, uploads >>

NextUnfiltered ==
    \/ MountLoad
    \/ \E v \in MinDealsValues : SetMinDealsThreshold(v)

SpecUnfiltered == Init /\ [][NextUnfiltered]_vars

\* position of the entry of a broker in a BrokerPerformance list
PositionOf(list, name) == CHOOSE i \in 1..Len(list) : list[i].brokerName = name

\* C15: filteredBrokers is the sub-sequence of the brokerPerformance entries with
\* totalDeals >= minDealsThreshold, in the same order, and for m1 <= m2 the entries
\* kept for m2 are among those kept for m1 (raising the minimum never adds entries).
C15_MinimumDealsFilter ==
    LET list == brokerPerformanceUnfiltered.list
        kept == unfilteredFilteredBrokers
    IN  /\ \A i \in 1..Len(kept) :
              kept[i].totalDeals >= minDealsThreshold
              /\ \E j \in 1..Len(list) : list[j] = kept[i]
        /\ \A j \in 1..Len(list) :
              list[j].totalDeals >= minDealsThreshold => \E i \in 1..Len(kept) : kept[i] = list[j]
        /\ \A i1, i2 \in 1..Len(kept) :
              i1 < i2 => PositionOf(list, kept[i1].brokerName) < PositionOf(list, kept[i2].brokerName)
        /\ \A m1, m2 \in 0..MaxDeals + 1 :
              m1 <= m2 =>
                 LET out1 == filterByMinimumDeals(list, m1)
                     out2 == filterByMinimumDeals(list, m2)
                 IN  /\ { out2[i] : i \in 1..Len(out2) } \subseteq { out1[i] : i \in 1..Len(out1) }
                     /\ Len(out2) <= Len(out1)

\* two brokers, minimum 2: only the second entry, a broker with exactly two deals,
\* is kept
C15_Witness ==
    /\ minDealsThreshold = 2
    /\ Len(brokerPerformanceUnfiltered.list) = 2
    /\ Len(unfilteredFilteredBrokers) = 1
    /\ unfilteredFilteredBrokers[1] = brokerPerformanceUnfiltered.list[2]
    /\ unfilteredFilteredBrokers[1].totalDeals = 2

----------------------------------------------------------------------------
(* Properties of the chart series of the lead sources pages *)

\* a series has exactly one point per date of the set, in strictly ascending order
OnePointPerDate(series, dates) ==
    /\ { series[i].date : i \in 1..Len(series) } = dates
    /\ Len(series) = Cardinality(dates)
    /\ \A i \in 1..Len(series) - 1 : LexRank(series[i].date) < LexRank(series[i + 1].date)

\* the date strings of the deals of the sessionStorage page that parse as dates
LeadValidDates ==
    { LeadDate(deals[i]).s :
        i \in { j \in 1..Len(deals) : HasDate(deals[j]) /\ ParseDate(LeadDate(deals[j]).s).valid } }

\* the sessionStorage page: every valid date of the deal set has exactly one point,
\* and the points are in strictly ascending order
LeadPointPerValidDate ==
    /\ \A d \in LeadValidDates :
          Cardinality({ i \in 1..Len(leadSeries) : leadSeries[i].date = d }) = 1
    /\ \A i \in 1..Len(leadSeries) - 1 :
          LexRank(leadSeries[i].date) < LexRank(leadSeries[i + 1].date)

\* the created_date values of the deals the sample chart is computed from
SampleValidDates ==
    { sampleFilteredDeals[i]["created_date"].s :
        i \in { j \in 1..Len(sampleFilteredDeals) :
                  ParseDate(sampleFilteredDeals[j]["created_date"].s).valid } }

\* C16: before truncation the chart series (here of the sample-data page) has exactly
\* one point for each distinct valid date of the deal set, also for a date with
\* neither a settled nor a Rednote deal, in strictly ascending order.
C16_PointPerDate == OnePointPerDate(sampleResult, SampleValidDates)

\* the (date, deal_id) pairs of the deals passing a test whose date parses and lies
\* in [d - 30 days, d]
DatedIdsInWindow(Test(_), d) ==
    { << LeadDate(deals[i]).s, deals[i]["deal_id"] >> :
        i \in { j \in 1..Len(deals) :
                  /\ Test(deals[j]) /\ HasDate(deals[j])
                  /\ ParseDate(LeadDate(deals[j]).s).valid /\ ParseDate(d).valid
                  /\ ParseDate(d).t - 30 * 24 <= ParseDate(LeadDate(deals[j]).s).t
                  /\ ParseDate(LeadDate(deals[j]).s).t <= ParseDate(d).t } }

\* no rolling average sums a deal whose date string does not parse
UnparseableNotSummed ==
    \A i \in 1..Len(leadSeries) :
        LET p == leadSeries[i]
        IN  /\ IsOverThirty(p.settledDeals30DayAvg,
                            Cardinality(DatedIdsInWindow(IsSettledStatus, p.date)))
            /\ IsOverThirty(p.rednoteDeals30DayAvg,
                            Cardinality(DatedIdsInWindow(IsRednote, p.date)))

\* C17: a deal whose date string is not empty but does not parse as a date is left
\* out of the date-based calculation: no rolling average sums it, and the chart
\* series has no point for its date string.
C17_UnparseableExcluded ==
    /\ UnparseableNotSummed
    /\ \A i \in 1..Len(leadSeries) : ParseDate(leadSeries[i].date).valid

\* two date strings name instants of one calendar day, in UTC and in local time
SameCalendarDay(a, b) ==
    /\ ParseDate(a).valid /\ ParseDate(b).valid
    /\ ParseDate(a).t \div HoursPerDay = ParseDate(b).t \div HoursPerDay
    /\ LocalDay(ParseDate(a).t, tz) = LocalDay(ParseDate(b).t, tz)

\* C18: date bucket keys are calendar-day granular: deals whose dates fall on the
\* same calendar day at different times of day share one date bucket and give one
\* chart point.
C18_DayGranularKeys ==
    /\ \A i, j \in 1..Len(leadSeries) :
          SameCalendarDay(leadSeries[i].date, leadSeries[j].date) => i = j
    /\ \A i, j \in 1..Len(settledCountByDate) :
          SameCalendarDay(settledCountByDate[i].key, settledCountByDate[j].key) => i = j
    /\ \A i, j \in 1..Len(rednoteCountByDate) :
          SameCalendarDay(rednoteCountByDate[i].key, rednoteCountByDate[j].key) => i = j

----------------------------------------------------------------------------
(* Properties of the aggregations on unusual rows *)

\* the aggregations complete on rows that hold only strings or nothing in the stage
\* columns and whose broker name is not an inherited property name: missing values
\* count as 0, an unparseable date leaves the deal out of the weekly groups
DegradesOnPlainRows ==
    (\A i \in 1..Len(filteredDeals) :
        /\ filteredDeals[i]["broker_name"] \notin ObjectPrototypeNames
        /\ SettledCheck(filteredDeals[i]) # "throw"
        /\ ConvertedCheck(filteredDeals[i]) # "throw")
    => /\ ~brokerPerformance.threw
       /\ ~chartData.threw
       /\ Len(filteredBrokers) <= Len(brokerPerformance.list)

\* C20: no aggregation throws, whatever the broker names and the optional fields of the
\* deals are: brokerPerformance, filteredBrokers and the weekly chart all complete
C20_NoAggregationThrows ==
    /\ ~brokerPerformance.threw
    /\ ~chartData.threw
    /\ Len(filteredBrokers) <= Len(brokerPerformance.list)

\* the entries of a list, as a set
EntriesOf(list) == { list[i] : i \in 1..Len(list) }

\* C25: switching between settled and conversion mode changes only the order of the
\* BrokerPerformance list: for the same filtered deals both modes give the same
\* entries with the same value in every field.
C25_ModeChangesOrderOnly ==
    LET settled == BrokerPerformanceOf(filteredDeals, "settled")
        conversion == BrokerPerformanceOf(filteredDeals, "conversion")
    IN  /\ brokerPerformance = (IF selectedMode = "settled" THEN settled ELSE conversion)
        /\ settled.threw = conversion.threw
        /\ Len(settled.list) = Len(conversion.list)
        /\ EntriesOf(settled.list) = EntriesOf(conversion.list)

\* two brokers that the two modes list in opposite orders
C25_Witness ==
    LET settled == BrokerPerformanceOf(filteredDeals, "settled").list
        conversion == BrokerPerformanceOf(filteredDeals, "conversion").list
    IN  /\ selectedMode = "conversion"
        /\ Len(settled) = 2
        /\ settled[1] = conversion[2]
        /\ settled[2] = conversion[1]
        /\ settled[1] # settled[2]

\* what the page computes from the deals and the filters in a runtime of the given zone
OutputsIn(zone) ==
    LET filtered == FilteredDealsOf(deals, selectedBroker, selectedYear, zone)
        performance == BrokerPerformanceOf(filtered, selectedMode)
    IN  [filteredDeals |-> filtered,
         brokerPerformance |-> performance,
         filteredBrokers |-> filterByMinimumDeals(performance.list, minDealsThreshold),
         chartData |-> ChartDataOf(filtered, selectedBroker, selectedMode, threshold, zone)]

\* the outputs of the page are those of its own zone
OutputsOfPage ==
    /\ OutputsIn(tz).filteredDeals = filteredDeals
    /\ OutputsIn(tz).brokerPerformance = brokerPerformance
    /\ OutputsIn(tz).filteredBrokers = filteredBrokers
    /\ OutputsIn(tz).chartData = chartData

\* C23: recomputing filteredDeals, brokerPerformance, filteredBrokers and the chart
\* data changes neither the deals nor a deal record, and the outputs are functions
\* of the deals and the filters alone: the same deals and filters always give the
\* same outputs.
C23_OutputsOfDealsAndFilters ==
    /\ filteredDeals \in Seq(EntriesOf(deals))
    /\ \A zone \in TimeZones : OutputsIn(zone) = OutputsIn(tz)

----------------------------------------------------------------------------
(* The two rolling averages compared *)

\* the sum of the counts of a map on the 31 calendar days d-30..d
CountsOfWindow(map, d) ==
    LET inWindow == { k \in 1..Len(map) :
                        /\ DayNumber(map[k].key) >= DayNumber(d) - WindowDays
                        /\ DayNumber(map[k].key) <= DayNumber(d) }
    IN  SumOver(inWindow, [k \in 1..Len(map) |-> map[k].count])

\* the two variants agree on a map for every date of the series
VariantsAgreeOn(map) ==
    \A i \in 1..Len(sampleAllDates) :
        LET d == sampleAllDates[i]
            full == calculate30DayRollingSum(map, d, tz)
            fixed == calculate30DayRollingAvg(map, d, sampleAllDates)
        IN  /\ ~full.isNull
            /\ FracEq(full.v, fixed)
            /\ FracEq(fixed, Frac(CountsOfWindow(map, d), WindowDays))

\* the two variants agree in the zones whose offset never changes
VariantsAgreeAtFixedOffset ==
    tz \in TimeZones => VariantsAgreeOn(sampleSettledByDate) /\ VariantsAgreeOn(sampleRednoteByDate)

\* C26: on a count map keyed by calendar days and a valid target date d the
\* full-window variant returns a number, equal to the result of the fixed-divisor
\* variant: both are the sum of the counts on the 31 calendar days d-30..d, over 30.
C26_VariantsAgree ==
    VariantsAgreeOn(sampleSettledByDate) /\ VariantsAgreeOn(sampleRednoteByDate)

----------------------------------------------------------------------------
(* File upload: the files *)

\* the records the uploaded JSON files hold: a complete one, and one without
\* deal_name, status and deal_value; their ids differ from the stored ones
CompleteRecord ==
    [Deal("u1", Amy, Num(100), Str("2024-01-01")) EXCEPT
        !["deal_name"] = "Loan 1", !["status"] = "6. Settled"]
BareRecord == Deal("u2", Jo, Null, Null)

\* a cell that XLSX read as a Date (cellDates: true)
DateCell(iso) == [t |-> "date", iso |-> iso]

\* the first sheet as sheet_to_json(..., {header: 1}) returns it: the header row,
\* then a full row, a row of empty cells shorter than the header, and a row with a
\* numeric id and a blank name
SheetRows ==
    << << Str("deal_id"), Str("deal_name"), Str("broker_name"), Str("status"),
          Str("deal_value"), Str("latest_date") >>,
       << Str("x1"), Str("Loan 1"), Str(Amy), Str("6. Settled"), Str("$250"),
          DateCell("2024-01-07T11:00:00.000Z") >>,
       << Null, Null, Null >>,
       << Num(7), Str("  "), Str(Jo), Str("Lost"), Num(50), Null >> >>

\* what the file holds: JSON text (an array, an object with a deals array, another
\* object, null, or text that is not JSON) or a workbook (its first sheet's rows)
JsonArray(ds) == [kind |-> "array", val |-> ds, rows |-> << >>]
JsonWrapped(ds) == [kind |-> "wrapped", val |-> ds, rows |-> << >>]
JsonObject == [kind |-> "object", val |-> << >>, rows |-> << >>]
JsonNull == [kind |-> "null", val |-> << >>, rows |-> << >>]
NotJson == [kind |-> "text", val |-> << >>, rows |-> << >>]
Workbook(rows) == [kind |-> "workbook", val |-> << >>, rows |-> rows]

File(name, content) == [name |-> name, content |-> content]

\* the files the user picks
UploadFiles ==
    { File("deals.json", JsonArray(<< CompleteRecord >>)),
      File("deals.json", JsonArray(<< CompleteRecord, BareRecord >>)),
      File("deals.json", JsonArray(<< >>)),
      File("export.JSON", JsonWrapped(<< CompleteRecord >>)),
      File("deals.json", JsonObject),
      File("deals.json", JsonNull),
      File("deals.json", NotJson),
      File("deals.xlsx", Workbook(SheetRows)),
      File("deals.xls", Workbook(SubSeq(SheetRows, 1, 3))),
      File("deals.xlsx", Workbook(<< >>)),
      File("deals.csv", NotJson),
      File("deals", JsonArray(<< CompleteRecord >>)) }

\* file.name.split('.').pop()?.toLowerCase()
FileExtension(name) ==
    CASE name \in {"deals.json", "export.JSON"} -> "json"
      [] name = "deals.xlsx" -> "xlsx"
      [] name = "deals.xls" -> "xls"
      [] name = "deals.csv" -> "csv"
      [] OTHER -> name

----------------------------------------------------------------------------
(* File upload: parsing *)

InvalidStructure == "Invalid JSON structure."
UnsupportedFormat == "Unsupported file format. Please upload a JSON or Excel (.xlsx/.xls) file."
\* the messages of the errors the runtime throws
SyntaxErrorMessage == "Unexpected token"
TypeErrorMessage == "Cannot read properties"
QuotaExceededMessage == "The quota has been exceeded."

Parsed(ds) == [ok |-> TRUE, deals |-> ds, message |-> ""]
Thrown(message) == [ok |-> FALSE, deals |-> << >>, message |-> message]

\* the JSON branch: JSON.parse, then the array itself or its deals property
ParseJson(content) ==
    CASE content.kind = "array" -> Parsed(content.val)
      [] content.kind = "wrapped" -> Parsed(content.val)
      [] content.kind = "object" -> Thrown(InvalidStructure)
      [] content.kind = "null" -> Thrown(TypeErrorMessage)
      [] OTHER -> Thrown(SyntaxErrorMessage)

\* String(v) of a string or a number
StringOf(v) == IF v.t = "str" THEN v.s ELSE ToString(v.n)

\* Number(dealValue.replace(/[^0-9.-]+/g, "")) || 0 on the strings of the model
NumberOfStripped(s) == IF s = "$250" THEN 250 ELSE 0

\* deal[header] = row[colIndex] ?? null, for the last column with that header;
\* null when no column has it
CellOf(headers, row, field) ==
    LET cols == { c \in 1..Len(headers) : Trim(headers[c].s) = field }
    IN  IF cols = {} THEN Null
        ELSE LET c == CHOOSE c \in cols : \A o \in cols : o <= c
             IN  IF c <= Len(row) THEN row[c] ELSE Null

\* value.toISOString() for Date cells, other cells as they are
CellValue(cell) == IF cell.t = "date" THEN Str(cell.iso) ELSE cell

\* the deal of one sheet row; index counts the rows from 0
ExcelDeal(headers, row, index) ==
    LET cell(field) == CellOf(headers, row, field)
        orDefault(field, default) ==
            IF Truthy(cell(field)) THEN StringOf(cell(field)) ELSE default
        dealValue == cell("deal_value")
        read == [f \in {"1. Application", "2. Assessment", "3. Approval", "4. Loan Document",
                         "5. Settlement Queue", "6. Settled", "2025 Settlement",
                         "2024 Settlement", "latest_date", "created_date"}
                   |-> CellValue(cell(f))]
    IN  read @@
        [deal_id |-> orDefault("deal_id", "excel_" \o ToString(index + 1)),
         deal_name |-> orDefault("deal_name", "Deal " \o ToString(index + 1)),
         broker_name |-> orDefault("broker_name", "Unknown Broker"),
         status |-> orDefault("status", "Unknown"),
         deal_value |-> IF dealValue.t = "str" THEN Num(NumberOfStripped(dealValue.s))
                        ELSE IF dealValue.t = "num" THEN dealValue
                        ELSE Num(0)]
        @@ BaseDeal

\* .filter((deal) => deal.deal_name && deal.deal_name.trim() !== "")
KeepsRow(deal) == deal["deal_name"] # "" /\ Trim(deal["deal_name"]) # ""

\* the Excel branch: jsonData[0] is the header row, the other rows are mapped and filtered
ParseWorkbook(content) ==
    IF Len(content.rows) = 0 THEN Thrown(TypeErrorMessage)
    ELSE LET headers == content.rows[1]
             data == Tail(content.rows)
             mapped == [i \in 1..Len(data) |-> ExcelDeal(headers, data[i], i - 1)]
         IN  Parsed(SelectSeq(mapped, KeepsRow))

Supported(file) == FileExtension(file.name) \in {"json", "xlsx", "xls"}

\* the try block up to setDeals: the deals array, or the error thrown
ParseUpload(file) ==
    IF FileExtension(file.name) = "json" THEN ParseJson(file.content)
    ELSE IF FileExtension(file.name) \in {"xlsx", "xls"} THEN ParseWorkbook(file.content)
    ELSE Thrown(UnsupportedFormat)

----------------------------------------------------------------------------
(* File upload: state machine *)

\* the deal array in storage when the page is opened
StoredRecord ==
    [Deal("d1", Amy, Num(100), Str("2024-01-01")) EXCEPT
        !["deal_name"] = "Loan 0", !["status"] = "6. Settled",
        !["6. Settled"] = Str("2024-01-15")]
UploadStoredItems == {NoItem, CorruptItem, JsonItem(<< StoredRecord >>)}

InitUpload ==
    /\ InitPage
    /\ storage \in UploadStoredItems

\* a faulty variant: the file input is never disabled
UploadAlwaysEnabled == TRUE

\* <input type="file" ... disabled={isLoading} />
UploadEnabled == ~isLoading

\* a faulty variant: the item is left as it is
SetItemNever(ds) == storage

\* sessionStorage.setItem('dashboard-deals-data', JSON.stringify(dealsArray))
SetItem(ds) == JsonItem(ds)

\* a faulty variant: the catch block leaves the deals
UploadFailedKeepingDeals(message) ==
    /\ error' = message
    /\ deals' = deals
    /\ storage' = NoItem

\* the catch block: setError(err.message); setDeals([]); removeItem
UploadFailed(message) ==
    /\ error' = message
    /\ deals' = << >>
    /\ storage' = NoItem

\* a faulty variant: the success path leaves the error
UploadStoredKeepingError(ds) ==
    /\ deals' = ds
    /\ error' = error
    /\ storage' = SetItem(ds)

\* setDeals(dealsArray); setError(null); setItem
UploadStored(ds) ==
    /\ deals' = ds
    /\ error' = NoError
    /\ storage' = SetItem(ds)

\* the change event of the file input without a file: if (!file) return
ChangeWithoutFile == UNCHANGED vars

\* handleFileUpload up to its first await: for a supported extension the handler
\* waits for the file's content, for any other it throws and runs to its end
StartUpload(file) ==
    /\ Cardinality(uploads) < MaxInFlight
    /\ IF Supported(file)
       THEN /\ isLoading' = TRUE
            /\ error' = NoError
            /\ uploads' = uploads \cup
                  { [id |-> CHOOSE i \in 1..MaxInFlight : \A u \in uploads : u.id # i,
                     file |-> file] }
            /\ UNCHANGED << deals, storage >>
       ELSE /\ UploadFailed(UnsupportedFormat)
            /\ isLoading' = FALSE
            /\ UNCHANGED uploads
    /\ UNCHANGED << mounted, selectedMode, selectedBroker, selectedYear,
                    threshold, minDealsThreshold, tz >>

\* the file input as rendered: usable after the mount effect, disabled while loading
UploadBegin(file) ==
    /\ mounted
    /\ UploadEnabled
    /\ StartUpload(file)

\* handleFileUpload from the file's content to its end; setItem may throw
\* (quota exceeded), which the catch block handles like a parse error
FinishUpload(u, writeFails) ==
    /\ u \in uploads
    /\ LET result == ParseUpload(u.file)
       IN  IF result.ok /\ ~writeFails THEN UploadStored(result.deals)
           ELSE UploadFailed(IF result.ok THEN QuotaExceededMessage ELSE result.message)
    /\ isLoading' = FALSE
    /\ uploads' = uploads \ {u}
    /\ UNCHANGED << mounted, selectedMode, selectedBroker, selectedYear,
                    threshold, minDealsThreshold, tz >>

NextUpload ==
    \/ MountLoad
    \/ ChangeWithoutFile
    \/ \E file \in UploadFiles : UploadBegin(file)
    \/ \E u \in uploads : \E writeFails \in BOOLEAN : FinishUpload(u, writeFails)

SpecUpload == InitUpload /\ [][NextUpload]_vars

\* the handlers by themselves, called in any order: handleFileUpload has no guard
\* of its own, so calls may overlap
NextHandlers ==
    \/ MountLoad
    \/ ChangeWithoutFile
    \/ \E file \in UploadFiles : StartUpload(file)
    \/ \E u \in uploads : \E writeFails \in BOOLEAN : FinishUpload(u, writeFails)

SpecHandlers == InitUpload /\ [][NextHandlers]_vars

----------------------------------------------------------------------------
(* Properties of the file upload *)

\* a step in which a handleFileUpload call runs to its end
UploadEnds ==
    \/ \E u \in uploads : \E writeFails \in BOOLEAN : FinishUpload(u, writeFails)
    \/ \E file \in UploadFiles : ~Supported(file) /\ StartUpload(file)

\* a handleFileUpload call for this file runs to its end
UploadOfEnds(file) ==
    \/ \E u \in uploads : u.file = file /\ \E writeFails \in BOOLEAN : FinishUpload(u, writeFails)
    \/ ~Supported(file) /\ StartUpload(file)

\* the file cannot be parsed into a deals array
BadFile(file) ==
    \/ ~Supported(file)
    \/ FileExtension(file.name) = "json" /\ file.content.kind \notin {"array", "wrapped"}
    \/ FileExtension(file.name) \in {"xlsx", "xls"} /\ Len(file.content.rows) = 0

\* C21: a failed upload (a file that cannot be parsed, an unsupported extension, a
\* storage write error) ends with a non-null error, an empty deal set and no stored
\* item, whatever was loaded before; a bad file always fails, and a call that ends
\* without an error has stored its deals.
C21_FailureClears ==
    [][ /\ UploadEnds /\ error' # NoError => deals' = << >> /\ storage' = NoItem
        /\ \A file \in UploadFiles : UploadOfEnds(file) /\ BadFile(file) => error' # NoError
        /\ UploadEnds /\ storage' = NoItem => error' # NoError ]_vars

\* an upload failed when deals were loaded: each kind of failure
C21_Witness ==
    /\ mounted /\ ~isLoading /\ uploads = {}
    /\ error \in {SyntaxErrorMessage, InvalidStructure, UnsupportedFormat,
                  QuotaExceededMessage, TypeErrorMessage}
    /\ deals = << >>
    /\ storage = NoItem

\* deal_id, deal_name, broker_name and status are non-empty strings, deal_value is a number
Populated(deal) ==
    /\ deal["deal_id"] # ""
    /\ deal["deal_name"] # ""
    /\ deal["broker_name"] # ""
    /\ deal["status"] # ""
    /\ deal["deal_value"].t = "num"

\* after a successful upload of a workbook every record is populated
WorkbookRecordsPopulated ==
    [][ \A file \in UploadFiles :
          (UploadOfEnds(file) /\ file.content.kind = "workbook" /\ error' = NoError)
          => \A i \in 1..Len(deals') : Populated(deals'[i]) ]_vars

\* C22: after a successful upload, JSON or Excel, every record of the deal set has
\* deal_id, deal_name, broker_name and status as strings and deal_value as a number,
\* defaults standing in for what the file left out.
C22_RecordsPopulated ==
    [][ (UploadEnds /\ error' = NoError) => \A i \in 1..Len(deals') : Populated(deals'[i]) ]_vars

\* C27: in every state between handler steps (mount load, upload start, upload
\* success, upload failure, in any order and interleaving) a non-null error implies
\* an empty deal set.
C27_ErrorImpliesNoDeals == error # NoError => deals = << >>

\* an upload failed while another call, started before it, still waits for its file
C27_Witness ==
    /\ error # NoError
    /\ deals = << >>
    /\ uploads # {}
    /\ mounted

\* browser storage mirrors the deal set: the item is the JSON of the deals, or there
\* is no item and the deal set is empty
Mirrors ==
    \/ storage = JsonItem(deals)
    \/ storage = NoItem /\ deals = << >>

\* C28: when an upload handler has finished, storage mirrors the deal set: after a
\* success the item is the JSON of exactly the deals just set, after a failure there
\* is no item and no deal; with overlapping uploads both are those of the call that
\* finished last.
C28_StorageMirrorsDeals ==
    [][ /\ UploadEnds => \/ error' = NoError /\ storage' = JsonItem(deals')
                         \/ error' # NoError /\ storage' = NoItem /\ deals' = << >>
        /\ \A file \in UploadFiles :
              (UploadOfEnds(file) /\ error' = NoError)
              => deals' = ParseUpload(file).deals /\ storage' = JsonItem(ParseUpload(file).deals)
        /\ (Mirrors /\ ~UploadEnds) => Mirrors' ]_vars

\* a second call finished with a success while the first still waits for its file
C28_Witness ==
    /\ uploads # {}
    /\ ~isLoading
    /\ error = NoError
    /\ deals = << CompleteRecord >>
    /\ storage = JsonItem(<< CompleteRecord >>)

\* C29: isLoading is true exactly while an upload of a selected file is in progress,
\* and false once every started upload has finished, on the success, the parse
\* failure and the unsupported extension path; a change event without a file
\* changes neither isLoading nor error, deals or storage.
C29_LoadingWhileUploading ==
    /\ [](isLoading <=> uploads # {})
    /\ [][ChangeWithoutFile => UNCHANGED << isLoading, error, deals, storage >>]_vars

\* a second upload is in progress after a first one succeeded
C29_Witness ==
    /\ isLoading
    /\ uploads # {}
    /\ deals = << CompleteRecord >>
    /\ storage = JsonItem(<< CompleteRecord >>)

\* the number of records a file holds: the elements of the JSON array, the rows of
\* the sheet below the header row
RecordCount(file) ==
    IF file.content.kind = "workbook" THEN Len(file.content.rows) - 1
    ELSE Len(file.content.val)

\* a successful upload sets the deals to what the handler reads from the file,
\* whatever the deals, the storage item and the earlier uploads were
ReplacesDealSet ==
    [][ \A file \in UploadFiles :
          (UploadOfEnds(file) /\ error' = NoError) => deals' = ParseUpload(file).deals ]_vars

\* C30: a successful upload replaces the deal set: afterwards the deals are exactly
\* the records of the uploaded file, one per record and in file order, and nothing
\* of an earlier upload or of the stored set is kept.
C30_UploadReplaces ==
    [][ \A file \in UploadFiles :
          (UploadOfEnds(file) /\ error' = NoError) =>
             /\ Len(deals') = RecordCount(file)
             /\ file.content.kind # "workbook" => deals' = file.content.val
             /\ \A i \in 1..Len(deals') : deals'[i] # StoredRecord ]_vars

----------------------------------------------------------------------------
(* The weekly deal threshold: slider and number input *)

\* what the user types into the number input next to the slider
ThresholdTexts == {"", "abc", "-3", "2.5", "61", "7"}

NaN == [nan |-> TRUE, v |-> FracZero]
Finite(x) == [nan |-> FALSE, v |-> x]

\* Number(e.target.value) on the texts of the model
NumberOfText(text) ==
    CASE text = "" -> Finite(Whole(0))
      [] text = "-3" -> Finite(Whole(-3))
      [] text = "2.5" -> Finite(Frac(5, 2))
      [] text = "61" -> Finite(Whole(61))
      [] text = "7" -> Finite(Whole(7))
      [] OTHER -> NaN

\* x || 0: NaN and 0 are falsy
OrZero(x) == IF x.nan \/ x.v.num = 0 THEN Whole(0) ELSE x.v

MathMax(a, b) == IF FracLe(a, b) THEN b ELSE a
MathMin(a, b) == IF FracLe(a, b) THEN a ELSE b

ThresholdMax == 60

\* the number input: setThreshold(Math.min(60, Math.max(0, Number(e.target.value) || 0)))
EditThreshold(text) ==
    /\ Len(deals) > 0
    /\ threshold' = MathMin(Whole(ThresholdMax), MathMax(Whole(0), OrZero(NumberOfText(text))))
    /\ UNCHANGED << deals, isLoading, error, storage, mounted, selectedMode, selectedBroker,
                    selectedYear, minDealsThreshold, tz, uploads >>

\* the slider positions: integers from min to max in steps of 1
SliderPositions == SliderValues \cup {ThresholdMax}

NextThreshold ==
    \/ MountLoad
    \/ \E b \in {"all"} \cup availableBrokers : SetSelectedBroker(b)
    \/ \E v \in SliderPositions : SetThreshold(v)
    \/ \E text \in ThresholdTexts : EditThreshold(text)

SpecThreshold == InitWeekly /\ [][NextThreshold]_vars

\* the number input clamps what it is given to 0..60
InputClamps == FracLe(Whole(0), threshold) /\ FracLe(threshold, Whole(ThresholdMax))

\* C24: after any slider moves and number input edits (empty, non-numeric, negative,
\* fractional, over-range) the weekly deal threshold is an integer in 0..60.
C24_ThresholdInteger ==
    /\ threshold.num % threshold.den = 0
    /\ FracLe(Whole(0), threshold)
    /\ FracLe(threshold, Whole(ThresholdMax))

====
